---- MODULE Spec2Model ----
(***************************************************************************)
(* Credential lifecycle of scouts-cli: the token cache of ScoutingAuth     *)
(* (client/auth.py) and the two-phase browser acquisition of               *)
(* client/browser_auth.py, as one single-threaded state machine; and the   *)
(* context cache of ScoutContext (context.py) built on it.                 *)
(*                                                                         *)
(* Time is an integer number of seconds; it advances between calls (Tick)  *)
(* and in time.sleep, which returns after exactly the poll interval; every *)
(* other statement takes no time.  Strings that the code parses            *)
(* (tokens, ISO timestamps, the token file, the LOGIN_DATA value) are      *)
(* records of the features the parsers look at; every parser is an         *)
(* operator over those features.                                           *)
(*                                                                         *)
(* Spec is the whole machine.  PollSpec is the acquisition alone, started  *)
(* by auth login with nothing cached, with the fairness of a thread that   *)
(* runs on.  SaveSpec is login_with_token taken one file operation at a    *)
(* time, where the process may be killed between two of them.  RaceSpec is  *)
(* two invocations of the program that write the same file, each one file  *)
(* operation at a time.  RefreshSpec is ScoutContext.refresh (context.py)  *)
(* applied to what the upstream endpoints may answer, and ReadSpec is the  *)
(* reads of the saved snapshot while the clock advances.  ExtractSpec is   *)
(* the first phase of an acquisition with the values it reads recorded,    *)
(* DispatchSpec is main's automatic refresh before a command that needs a  *)
(* client, and SendSpec is `message send` with its confirmation            *)
(* (utils/safety.py).                                                      *)
(***************************************************************************)
EXTENDS Integers, Sequences, FiniteSets, TLC

\* ----------------------------------------------------------------- bounds
\* Top-level calls start, and idle time passes, only up to this instant.
MaxNow == 2
\* Tokens carry expiry claims 1..MaxExp (they lapse while the model runs).
MaxExp == 2
\* A record written by one of two racing invocations has 1..MaxRecLen pieces.
MaxRecLen == 3
\* An upstream response lists up to MaxRecs records.
MaxRecs == 2

\* ------------------------------------------------------ program constants
BROWSER_HEADLESS_TIMEOUT == 15
BROWSER_HEADED_TIMEOUT == 300
BROWSER_POLL_INTERVAL == 2

\* An expiry no run of the model reaches.
FarFuture == 2 * (MaxNow + BROWSER_HEADLESS_TIMEOUT + BROWSER_HEADED_TIMEOUT)
ExpInstants == (1..MaxExp) \cup {FarFuture}

\* ------------------------------------------------------------------ tokens
\* The "exp" entry of a claims object: absent, a falsy value (0), a number of
\* seconds, a non-number, or a number beyond datetime's range (year > 9999).
ExpAbsent == [k |-> "absent", t |-> 0]
ExpZero == [k |-> "zero", t |-> 0]
ExpNonNumeric == [k |-> "nonnumeric", t |-> 0]
ExpHuge == [k |-> "huge", t |-> 0]
ExpNum(n) == [k |-> "num", t |-> n]

\* A token string: whether it starts with "eyJ", how many parts split('.')
\* gives, len(parts[1]) % 4, what parts[1] base64-decodes to ("notjson",
\* "nonobject": JSON that is no object, "object"), and the object's exp.
NoneTok == [prefix |-> FALSE, parts |-> 0, plen |-> 0, body |-> "None", exp |-> ExpAbsent]
EmptyTok == [prefix |-> FALSE, parts |-> 1, plen |-> 0, body |-> "empty", exp |-> ExpAbsent]
GoodTok(n) == [prefix |-> TRUE, parts |-> 3, plen |-> 2, body |-> "object", exp |-> ExpNum(n)]
FarTok == GoodTok(FarFuture)
Tokens ==
    {GoodTok(n) : n \in ExpInstants}
    \cup {[FarTok EXCEPT !.prefix = FALSE],
          [FarTok EXCEPT !.parts = 2],
          [FarTok EXCEPT !.parts = 4],
          [FarTok EXCEPT !.plen = 1],
          [FarTok EXCEPT !.body = "notjson"],
          [FarTok EXCEPT !.body = "nonobject"],
          [FarTok EXCEPT !.exp = ExpAbsent],
          [FarTok EXCEPT !.exp = ExpZero],
          [FarTok EXCEPT !.exp = ExpNonNumeric],
          [FarTok EXCEPT !.exp = ExpHuge]}

\* Python truthiness of a token value (None and "" are falsy).
Truthy(tok) == tok # NoneTok /\ tok # EmptyTok

\* -------------------------------------------------------- the token file
\* The "expires_at" entry of the cached record: absent/None/"" ("none"), an
\* ISO string with a UTC offset ("aware"), one without ("naive"), a string
\* that is no ISO timestamp ("garbage"), a truthy non-string ("nonstr").
EaNone == [k |-> "none", t |-> 0]
EaGarbage == [k |-> "garbage", t |-> 0]
EaNonStr == [k |-> "nonstr", t |-> 0]
EaAware(n) == [k |-> "aware", t |-> n]
EaNaive(n) == [k |-> "naive", t |-> n]

\* TOKEN_FILE: missing ("nofile"), text that is no JSON, such as an empty or
\* truncated file ("unparseable"), bytes that are no UTF-8 text
\* ("undecodable"), a falsy JSON value such as {} or [] ("falsy"), a truthy
\* JSON value that is no object ("nondict"), or an object ("dict") with its
\* "token" and "expires_at"
\* entries (obtained_at, user, uid, mid, pgu and scope are written by
\* login_with_token and read by nothing in auth.py).
File(kind) ==
    [kind |-> kind, hasToken |-> FALSE, token |-> NoneTok, expires_at |-> EaNone]
NoFile == File("nofile")
Rec(tok, ea) ==
    [kind |-> "dict", hasToken |-> TRUE, token |-> tok, expires_at |-> ea]
InitStores ==
    {NoFile, File("unparseable"), File("undecodable"), File("falsy"), File("nondict")}
    \cup {Rec(GoodTok(n), EaAware(n)) : n \in ExpInstants}
    \cup {Rec(FarTok, ea) :
            ea \in {EaNone, EaGarbage, EaNonStr, EaNaive(1), EaNaive(FarFuture)}}
    \cup {[Rec(NoneTok, EaAware(FarFuture)) EXCEPT !.hasToken = FALSE]}

\* ---------------------------------------------------------------- outcomes
\* What a call gives back: a value ("return") or an exception ("raise").
NoResult ==
    [op |-> "none", kind |-> "pending", err |-> "", msg |-> "", token |-> NoneTok,
     rec |-> NoFile, expired |-> FALSE, timeout |-> 0, at |-> 0]
\* at: the clock when the call ended.
At(r, n) == [r EXCEPT !.at = n]
Return(op, tok) == [NoResult EXCEPT !.op = op, !.kind = "return", !.token = tok]
Raise(op, err, msg) == [NoResult EXCEPT !.op = op, !.kind = "raise", !.err = err, !.msg = msg]

VARIABLES
    store,        \* content of TOKEN_FILE
    now,          \* the clock (time.time(), datetime.now)
    noBrowser,    \* SCOUTS_NO_BROWSER is set
    playwright,   \* the playwright package is importable
    pc,           \* where the thread is
    op,           \* the running top-level call
    arg,          \* its token argument (login_with_token)
    cached,       \* get_token's local "cached"
    headless,     \* the running phase of acquire_token_via_browser
    deadline,     \* _poll_for_token's local "deadline"
    tok,          \* _try_acquire's return value
    sessions,     \* browser contexts launched by the running call
    acq,          \* how acquire_token_via_browser ended
    result,       \* how the last top-level call ended
    pre,          \* store when the running call started
    preNow,       \* clock when the running call started
    acqInvoked,   \* the running call has called acquire_token_via_browser
    polls,        \* reads of LOGIN_DATA made by the running (or last) phase
    lastPoll,     \* the clock at the last of them
    minGap,       \* least time between two consecutive ones (NoGap: no two yet)
    mode,         \* permission bits of TOKEN_FILE while it exists
    disk,         \* RaceSpec: the pieces held by the file both invocations write
    wr,           \* RaceSpec: each invocation's position and record length
    upstream,     \* what refresh finds upstream and in the credential record
    ctxFile,      \* content of CONTEXT_FILE
    cresult,      \* value of the last call on the context
    fetched,      \* upstream fetches made by the last refresh
    lastRaw,      \* ExtractSpec: the value of LOGIN_DATA read last
    send          \* SendSpec: the run of `message send`

vars == <<store, now, noBrowser, playwright, pc, op, arg, cached, headless,
          deadline, tok, sessions, acq, result, pre, preNow, acqInvoked,
          polls, lastPoll, minGap, mode, disk, wr, upstream, ctxFile, cresult,
          fetched, lastRaw, send>>


\* ------------------------------------------------- auth.py: pure functions
\* _decode_jwt_claims: the claims of parts[1], or AuthenticationError.  The
\* code pads parts[1] with 4 - len % 4 '=' signs; one data character more
\* than a multiple of 4 is no base64 whatever the padding, and characters
\* outside the alphabet are dropped, so a bad segment shows as "notjson".
DecodeError(msg) ==
    [ok |-> FALSE, err |-> "AuthenticationError", msg |-> msg,
     isdict |-> FALSE, exp |-> ExpAbsent]
decode_jwt_claims(t) ==
    IF t.parts # 3 THEN DecodeError("Invalid JWT format (expected 3 parts).")
    ELSE IF t.plen = 1 \/ t.body \notin {"object", "nonobject"}
         THEN DecodeError("Failed to decode JWT token")
    ELSE [ok |-> TRUE, err |-> "", msg |-> "", isdict |-> t.body = "object",
          exp |-> IF t.body = "object" THEN t.exp ELSE ExpAbsent]

\* datetime.fromtimestamp(exp, tz=timezone.utc).isoformat()
fromtimestamp_isoformat_naive(exp) ==
    CASE exp.k = "num" -> [ok |-> TRUE, err |-> "", val |-> EaNaive(exp.t)]
      [] exp.k = "huge" -> [ok |-> FALSE, err |-> "ValueError", val |-> EaNone]
      [] OTHER -> [ok |-> FALSE, err |-> "TypeError", val |-> EaNone]
fromtimestamp_isoformat(exp) ==
    CASE exp.k = "num" -> [ok |-> TRUE, err |-> "", val |-> EaAware(exp.t)]
      [] exp.k = "huge" -> [ok |-> FALSE, err |-> "ValueError", val |-> EaNone]
      [] OTHER -> [ok |-> FALSE, err |-> "TypeError", val |-> EaNone]

\* datetime.fromisoformat(expires_at)
fromisoformat(ea) ==
    CASE ea.k = "aware" -> [ok |-> TRUE, err |-> "", aware |-> TRUE, t |-> ea.t]
      [] ea.k = "naive" -> [ok |-> TRUE, err |-> "", aware |-> FALSE, t |-> ea.t]
      [] ea.k = "garbage" -> [ok |-> FALSE, err |-> "ValueError", aware |-> FALSE, t |-> 0]
      [] OTHER -> [ok |-> FALSE, err |-> "TypeError", aware |-> FALSE, t |-> 0]

\* _load_cached_token: {} (here File("falsy")) for a missing or unparseable
\* file, otherwise whatever JSON value the file holds.
load_cached_token(s) ==
    IF s.kind \in {"nofile", "unparseable"} THEN File("falsy") ELSE s
\* _load_cached_token, lines 139-141: reading bytes that are no UTF-8 raises
\* UnicodeDecodeError, which is neither a JSONDecodeError nor an IOError.
LoadRaises(s) == s.kind = "undecodable"

\* "if cached": an empty dict, list, 0 or None is falsy.
IsTruthy(c) == c.kind \in {"nondict", "dict"}

\* _is_expired, line 152: datetime.now(timezone.utc) >= exp_dt
reached_off_by_one(n, t) == n > t
reached(n, t) == n >= t

\* _is_expired: TRUE/FALSE in val, or the exception that leaves it (only
\* ValueError is caught; a value without .get, a non-string expires_at and
\* the comparison of an aware with a naive datetime raise).
Expired(v) == [ok |-> TRUE, err |-> "", val |-> v]
ExpiredRaises(e) == [ok |-> FALSE, err |-> e, val |-> TRUE]
is_expired(c, n) ==
    IF c.kind # "dict" THEN ExpiredRaises("AttributeError")
    ELSE IF c.expires_at.k = "none" THEN Expired(TRUE)
    ELSE LET exp_dt == fromisoformat(c.expires_at) IN
         IF ~exp_dt.ok
         THEN (IF exp_dt.err = "ValueError" THEN Expired(TRUE)
               ELSE ExpiredRaises(exp_dt.err))
         ELSE IF ~exp_dt.aware THEN ExpiredRaises("TypeError")
         ELSE Expired(reached(n, exp_dt.t))

\* login_with_token, lines 100-102: TOKEN_FILE after open(TOKEN_FILE, 'w')
\* and json.dump(token_data, f).
write_skipped(s, token_data) == s
write_token_file(s, token_data) == token_data

\* login_with_token: the new content of TOKEN_FILE, or the exception raised
\* before anything is written.
LoginRaisesTruncated(err, msg, s) ==
    [ok |-> FALSE, err |-> err, msg |-> msg, store |-> File("unparseable")]
LoginRaises(err, msg, s) == [ok |-> FALSE, err |-> err, msg |-> msg, store |-> s]
login_with_token(t, s, n) ==
    IF ~t.prefix
    THEN LoginRaises("AuthenticationError", "Invalid token format.", s)
    ELSE LET claims == decode_jwt_claims(t) IN
         IF ~claims.ok THEN LoginRaises(claims.err, claims.msg, s)
         ELSE IF ~claims.isdict THEN LoginRaises("AttributeError", "", s)
         ELSE IF claims.exp.k \in {"absent", "zero"}
              THEN LoginRaises("AuthenticationError", "Token has no expiration claim.", s)
         ELSE LET iso == fromtimestamp_isoformat(claims.exp) IN
              IF ~iso.ok THEN LoginRaises(iso.err, "", s)
              ELSE [ok |-> TRUE, err |-> "", msg |-> "", store |-> write_token_file(s, Rec(t, iso.val))]

\* get_token_info: {} (rec = File("falsy")), or the cached record with
\* is_expired added to the returned copy.
get_token_info(s, n) ==
    LET c == load_cached_token(s)
        e == is_expired(c, n)
    IN  IF LoadRaises(s) THEN Raise("get_token_info", "UnicodeDecodeError", "")
        ELSE IF ~IsTruthy(c) THEN [Return("get_token_info", NoneTok) EXCEPT !.rec = c]
        ELSE IF ~e.ok THEN Raise("get_token_info", e.err, "")
        ELSE [Return("get_token_info", IF c.hasToken THEN c.token ELSE NoneTok)
                EXCEPT !.rec = c, !.expired = e.val]

\* get_token, lines 49-53: the error after no token could be obtained.
manual_error(c, n) ==
    LET e == is_expired(c, n) IN
    IF IsTruthy(c) /\ ~e.ok THEN Raise("get_token", e.err, "")
    ELSE IF IsTruthy(c) /\ e.val
         THEN [Raise("get_token", "AuthenticationError", "Token expired at") EXCEPT !.rec = c]
    ELSE Raise("get_token", "AuthenticationError", "No authentication token found.")

\* ----------------------------------------- browser_auth.py: pure functions
\* What page.evaluate("localStorage.getItem('LOGIN_DATA')") gives: an
\* exception, null, "", text that is no JSON, JSON that is no object, an
\* object without "token", with token "", with a non-string token, or with
\* a token string.
Raw(k) == [k |-> k, token |-> NoneTok]
\* The token strings the site's LOGIN_DATA is given in the model.
StoredTokens ==
    {GoodTok(n) : n \in ExpInstants}
    \cup {[FarTok EXCEPT !.prefix = FALSE],
          [FarTok EXCEPT !.parts = 2],
          [FarTok EXCEPT !.body = "nonobject"],
          [FarTok EXCEPT !.exp = ExpAbsent]}
\* No value read yet.
NoRaw == Raw("unread")
RawValues ==
    {Raw(k) : k \in {"evalerror", "null", "emptystr", "notjson", "nondict",
                     "notoken", "emptytoken", "nonstrtoken"}}
    \cup {[k |-> "token", token |-> t] : t \in StoredTokens}

\* _extract_token_from_page: the token, or None.
extract_token_any_prefix(raw) ==
    IF raw.k = "token" THEN raw.token ELSE NoneTok
extract_token_from_page(raw) ==
    IF raw.k \in {"evalerror", "null", "emptystr", "notjson", "nondict", "nonstrtoken"}
    THEN NoneTok
    ELSE LET token == IF raw.k = "emptytoken" THEN EmptyTok
                      ELSE IF raw.k = "notoken" THEN NoneTok
                      ELSE raw.token
         IN  IF Truthy(token) /\ token.prefix THEN token ELSE NoneTok

\* How acquire_token_via_browser ended; phase is the phase it ended in
\* (0: before any phase), suggestion the exception's suggestion argument.
NoAcq ==
    [kind |-> "none", token |-> NoneTok, err |-> "", msg |-> "", timeout |-> 0,
     phase |-> 0, suggestion |-> ""]
AcqToken(t, ph) == [NoAcq EXCEPT !.kind = "token", !.token = t, !.phase = ph]
AcqRaises(err, msg, ph) == [NoAcq EXCEPT !.kind = "raise", !.err = err, !.msg = msg, !.phase = ph]
\* _check_playwright_available, lines 38-44
PlaywrightMissing_generic ==
    [AcqRaises("BrowserAuthError", "Timed out waiting for login", 0)
       EXCEPT !.timeout = BROWSER_HEADED_TIMEOUT]
PlaywrightMissing ==
    [AcqRaises("BrowserAuthError", "Playwright is not installed.", 0)
       EXCEPT !.suggestion = "pip install playwright, or scouts auth login --token <JWT>"]
\* acquire_token_via_browser, lines 123-126
TimedOut_headless ==
    [AcqRaises("BrowserAuthError", "Timed out waiting for login", 2)
       EXCEPT !.timeout = BROWSER_HEADLESS_TIMEOUT]
TimedOut ==
    [AcqRaises("BrowserAuthError", "Timed out waiting for login", 2)
       EXCEPT !.timeout = BROWSER_HEADED_TIMEOUT]

\* The timeout acquire_token_via_browser hands to each phase.
PhaseTimeout(hl) == IF hl THEN BROWSER_HEADLESS_TIMEOUT ELSE BROWSER_HEADED_TIMEOUT
PhaseNo(hl) == IF hl THEN 1 ELSE 2

\* _poll_for_token, line 74: time.time() < deadline
before_deadline_inclusive(n, d) == n <= d
before_deadline(n, d) == n < d

\* The reads of LOGIN_DATA a phase makes: none yet.
NoGap == -1
\* The least gap after a read at instant n that follows one at instant last.
least_gap(gap, last, n) == IF gap = NoGap \/ n - last < gap THEN n - last ELSE gap

\* A browser context: launched, and closed by context.close().
Launched(hl) == [headless |-> hl, open |-> TRUE, closes |-> 0, outcome |-> "running"]
Closed_unless_error(s) ==
    IF s.outcome = "error" THEN s ELSE [s EXCEPT !.open = FALSE, !.closes = @ + 1]
Closed(s) == [s EXCEPT !.open = FALSE, !.closes = @ + 1]

\* acquire_token_via_browser after a phase returned token: "return" it, go on
\* to "phase2", or "fail" (lines 106-126).
after_phase_always_headed(hl, token) ==
    IF hl THEN "phase2" ELSE IF Truthy(token) THEN "return" ELSE "fail"
after_phase(hl, token) ==
    IF Truthy(token) THEN "return" ELSE IF hl THEN "phase2" ELSE "fail"

\* ========================================================== context.py
\* Text values (identifiers, unit types, positions, programs) are strings,
\* with "" for a value that is missing, null or empty: the code tells these
\* apart nowhere but by truth value.  Names are sequences of words or of
\* characters, <<>> for a missing one.

\* ------------------------------------------------------ upstream responses
\* One record of GET /persons/v2/{uid}/myScout (get_my_scouts); ok is
\* whether the list element is an object.
Scout(pg, guid, pos) ==
    [ok |-> TRUE, personGuid |-> pg, orgGuid |-> guid, position |-> pos,
     userId |-> pg, memberId |-> "", firstName |-> <<>>, lastName |-> <<>>,
     unitType |-> "", unitNumber |-> "", program |-> "", organizationName |-> ""]
\* One entry of organizationPositions in the person profile; positions holds
\* pos.get('name') or pos.get('position') of each of its positions.
OrgPosition(guid, positions) ==
    [organizationGuid |-> guid, organizationName |-> "Pack 12", unitType |-> "Pack",
     unitNumber |-> "12", positions |-> positions]
\* The person profile (get_person_profile): its "profile" object and its
\* organizationPositions.
Profile(p, ops) == [profile |-> p, organizationPositions |-> ops]
\* One entry of the role types (get_role_types).
Role(guid, program) == [organizationGuid |-> guid, programType |-> program]
NoFetchFails ==
    [profile1 |-> FALSE, profile2 |-> FALSE, my_scouts |-> FALSE, role_types |-> FALSE]
\* What refresh finds: the uid and pgu entries of the cached credential
\* record, what each endpoint answers, and which of the four fetches raise.
Upstream(uid, pgu, profile, scouts, roles) ==
    [uid |-> uid, pgu |-> pgu, profile |-> profile, scouts |-> scouts,
     roles |-> roles, fail |-> NoFetchFails]
NoUpstream == Upstream("", "", Profile("", <<>>), <<>>, <<>>)

\* ------------------------------------------------------------ the snapshot
CONTEXT_VERSION == 1
CONTEXT_MAX_AGE == 7 * 86400

NoUser ==
    [present |-> FALSE, userId |-> "", personGuid |-> "", hasProfile |-> FALSE,
     profile |-> ""]
\* CONTEXT_FILE: "nofile"; text that is no JSON ("unparseable") or no UTF-8
\* ("undecodable"); JSON null, {}, a falsy value that is no object ("falsy":
\* [], 0, ""), a truthy one ("nondict"); or an object ("dict") with its
\* version (0: none), lastRefreshed, user, organizations and scouts.
CtxFile(kind) ==
    [kind |-> kind, version |-> 0, lastRefreshed |-> EaNone, user |-> NoUser,
     organizations |-> <<>>, scouts |-> <<>>]
NoCtx == CtxFile("nofile")
\* The data refresh builds: user, organizations, scouts.
Data(user, orgs, scouts) ==
    [CtxFile("dict") EXCEPT !.user = user, !.organizations = orgs, !.scouts = scouts]

\* _save, lines 97-102: the version and the UTC instant of the save are set
\* in data, which is written to CONTEXT_FILE.
save(data, n) ==
    [data EXCEPT !.version = CONTEXT_VERSION, !.lastRefreshed = EaAware(n)]

\* _load, lines 82-93, of a new ScoutContext: None (JSON null alike) for no
\* file and for text that is no JSON; a file that is no UTF-8 raises.
CtxLoadRaises(f) == f.kind = "undecodable"
load(f) == IF f.kind \in {"nofile", "unparseable"} THEN CtxFile("null") ELSE f
\* "if not data", and data.get on a value that is no object.
Falsy(d) == d.kind \in {"null", "emptydict", "falsy"}
IsObject(d) == d.kind \in {"emptydict", "dict"}

\* --------------------------------------------------------------- refresh
Range(s) == {s[i] : i \in 1..Len(s)}
HasOrg(orgs, guid) == \E i \in 1..Len(orgs) : orgs[i].orgGuid = guid
OrgOf(orgs, guid) == orgs[CHOOSE i \in 1..Len(orgs) : orgs[i].orgGuid = guid]

\* "if pos and pos not in roles: roles.append(pos)", for each pos in turn.
RECURSIVE append_new(_, _)
append_new(list, xs) ==
    IF xs = <<>> THEN list
    ELSE append_new(IF Head(xs) # "" /\ Head(xs) \notin Range(list)
                    THEN Append(list, Head(xs)) ELSE list,
                    Tail(xs))

\* lines 184-198: the user section; the profile fields are added when the
\* first profile fetch answers.
user_section(u) ==
    LET base == [NoUser EXCEPT !.present = TRUE, !.userId = u.uid, !.personGuid = u.pgu]
    IN  IF u.uid # "" /\ ~u.fail.profile1
        THEN [base EXCEPT !.hasProfile = TRUE, !.profile = u.profile.profile]
        ELSE base

\* lines 205-221: the organizations of the profile's positions, in the order
\* they first appear; an entry without organizationGuid is skipped.
RECURSIVE profile_orgs(_, _)
profile_orgs(ops, orgs) ==
    IF ops = <<>> THEN orgs
    ELSE LET org == Head(ops)
             guid == org.organizationGuid
             added == IF HasOrg(orgs, guid) THEN orgs
                      ELSE Append(orgs,
                             [orgGuid |-> guid,
                              name |-> IF org.organizationName = "" THEN <<>>
                                       ELSE <<org.organizationName>>,
                              unitType |-> org.unitType, unitNumber |-> org.unitNumber,
                              hasProgram |-> FALSE, program |-> "",
                              roles |-> <<>>, scouts |-> <<>>])
         IN  IF guid = "" THEN profile_orgs(Tail(ops), orgs)
             ELSE profile_orgs(Tail(ops),
                    [i \in 1..Len(added) |->
                        IF added[i].orgGuid = guid
                        THEN [added[i] EXCEPT !.roles = append_new(@, org.positions)]
                        ELSE added[i]])

\* f"{a} {b}".strip() as words.
Words(a, b) ==
    (IF a = "" THEN <<>> ELSE <<a>>) \o (IF b = "" THEN <<>> ELSE <<b>>)
\* str.strip() of a sequence of characters.
RECURSIVE lstrip(_)
lstrip(s) == IF s # <<>> /\ Head(s) = " " THEN lstrip(Tail(s)) ELSE s
RECURSIVE rstrip(_)
rstrip(s) ==
    IF s # <<>> /\ s[Len(s)] = " " THEN rstrip(SubSeq(s, 1, Len(s) - 1)) ELSE s
strip(s) == rstrip(lstrip(s))

\* lines 236-249: the entry of a person seen for the first time.
scout_entry(s) ==
    [firstName |-> s.firstName, lastName |-> s.lastName,
     fullName |-> strip(s.firstName \o <<" ">> \o s.lastName),
     userId |-> s.userId, memberId |-> s.memberId, personGuid |-> s.personGuid,
     orgGuid |-> s.orgGuid, unitType |-> s.unitType, unitNumber |-> s.unitNumber,
     program |-> s.program, organization |-> s.organizationName,
     positions |-> <<s.position>>]

\* lines 258-269: the organization made up for a guid the profile did not
\* give.
stub_name(s) ==
    IF s.unitType # "" THEN Words(s.unitType, s.unitNumber)
    ELSE IF s.organizationName = "" THEN <<>> ELSE <<s.organizationName>>
stub_org(s) ==
    [orgGuid |-> s.orgGuid, name |-> stub_name(s), unitType |-> s.unitType,
     unitNumber |-> s.unitNumber, hasProgram |-> TRUE, program |-> s.program,
     roles |-> <<"Parent/Guardian">>, scouts |-> <<>>]

\* lines 231-271, one pass of the loop over raw_scouts.
seen_after_keep_first(seen, s) ==
    IF \E i \in 1..Len(seen) : seen[i].personGuid = s.personGuid THEN seen
    ELSE Append(seen, scout_entry(s))
seen_after(seen, s) ==
    IF \E i \in 1..Len(seen) : seen[i].personGuid = s.personGuid
    THEN [i \in 1..Len(seen) |->
            IF seen[i].personGuid = s.personGuid
            THEN [seen[i] EXCEPT !.positions = append_new(@, <<s.position>>)]
            ELSE seen[i]]
    ELSE Append(seen, scout_entry(s))
orgs_after_no_stub(orgs, s) ==
    [i \in 1..Len(orgs) |->
        IF orgs[i].orgGuid = s.orgGuid
        THEN [orgs[i] EXCEPT !.roles = append_new(@, <<"Parent/Guardian">>)]
        ELSE orgs[i]]
orgs_after(orgs, s) ==
    IF s.orgGuid = "" THEN orgs
    ELSE IF ~HasOrg(orgs, s.orgGuid) THEN Append(orgs, stub_org(s))
    ELSE [i \in 1..Len(orgs) |->
            IF orgs[i].orgGuid = s.orgGuid
            THEN [orgs[i] EXCEPT !.roles = append_new(@, <<"Parent/Guardian">>)]
            ELSE orgs[i]]

\* The loop: it ends early, by an exception, at a record that is no object.
RECURSIVE merge_scouts(_, _, _)
merge_scouts(raw, seen, orgs) ==
    IF raw = <<>> THEN [ok |-> TRUE, seen |-> seen, orgs |-> orgs]
    ELSE IF ~Head(raw).ok THEN [ok |-> FALSE, seen |-> seen, orgs |-> orgs]
    ELSE merge_scouts(Tail(raw), seen_after(seen, Head(raw)), orgs_after(orgs, Head(raw)))

\* lines 275-288: each scout is listed in its organization, unless one with
\* the same userId is listed there already.
never_listed(org, scout) == FALSE
listed(org, scout) ==
    scout.userId \in {org.scouts[j].userId : j \in 1..Len(org.scouts)}
RECURSIVE add_scout_refs(_, _)
add_scout_refs(scouts, orgs) ==
    IF scouts = <<>> THEN orgs
    ELSE LET scout == Head(scouts) IN
         add_scout_refs(Tail(scouts),
            [i \in 1..Len(orgs) |->
                IF /\ scout.orgGuid # ""
                   /\ orgs[i].orgGuid = scout.orgGuid
                   /\ ~listed(orgs[i], scout)
                THEN [orgs[i] EXCEPT !.scouts =
                        Append(@, [name |-> scout.fullName, userId |-> scout.userId,
                                   memberId |-> scout.memberId])]
                ELSE orgs[i]])

\* lines 227-288: scouts and organizations after the my-scouts step.
scouts_step(u, orgs) ==
    IF u.uid = "" \/ u.fail.my_scouts THEN [scouts |-> <<>>, orgs |-> orgs]
    ELSE LET m == merge_scouts(u.scouts, <<>>, orgs) IN
         IF m.ok THEN [scouts |-> m.seen, orgs |-> add_scout_refs(m.seen, m.orgs)]
         ELSE [scouts |-> <<>>, orgs |-> m.orgs]

\* lines 293-299: the program of a role is set in its organization when the
\* organization is known and has no 'program' key.
backfill(orgs, role) ==
    [i \in 1..Len(orgs) |->
        IF /\ role.organizationGuid # ""
           /\ orgs[i].orgGuid = role.organizationGuid
           /\ role.programType # ""
           /\ ~orgs[i].hasProgram
        THEN [orgs[i] EXCEPT !.hasProgram = TRUE, !.program = role.programType]
        ELSE orgs[i]]
RECURSIVE roles_loop(_, _)
roles_loop(roles, orgs) ==
    IF roles = <<>> THEN orgs ELSE roles_loop(Tail(roles), backfill(orgs, Head(roles)))
roles_step(u, orgs) ==
    IF u.pgu = "" \/ u.fail.role_types THEN orgs ELSE roles_loop(u.roles, orgs)

\* lines 200-224: the organizations after the second profile fetch.
orgs_step_aborting(u) == profile_orgs(u.profile.organizationPositions, <<>>)
orgs_step(u) ==
    IF u.uid = "" \/ u.fail.profile2 THEN <<>>
    ELSE profile_orgs(u.profile.organizationPositions, <<>>)

\* The fetches refresh makes, in order.
fetches(u) ==
    (IF u.uid = "" THEN <<>> ELSE <<"profile", "profile", "my_scouts">>)
    \o (IF u.pgu = "" THEN <<>> ELSE <<"role_types">>)

\* lines 178-307: data as refresh hands it to _save.
refresh_data(u) ==
    LET s == scouts_step(u, orgs_step(u))
    IN  Data(user_section(u), roles_step(u, s.orgs), s.scouts)

\* ----------------------------------------------------------- local reads
\* The value of a call on the context: what it returned (flag, list, data,
\* status) or the exception it raised.
NoCResult ==
    [op |-> "none", kind |-> "none", err |-> "", flag |-> FALSE, list |-> <<>>,
     data |-> NoCtx, status |-> "", query |-> <<>>, at |-> 0]
CReturn(name) == [NoCResult EXCEPT !.op = name, !.kind = "return"]
CRaise(name, err) == [NoCResult EXCEPT !.op = name, !.kind = "raise", !.err = err]
\* A read of the loaded value d that starts with "if not data" and then
\* calls data.get.
Guarded(name, d, empty, value) ==
    IF Falsy(d) THEN empty
    ELSE IF ~IsObject(d) THEN CRaise(name, "AttributeError")
    ELSE value

\* exists, lines 104-107
exists(f) ==
    LET d == load(f) IN
    IF CtxLoadRaises(f) THEN CRaise("exists", "UnicodeDecodeError")
    ELSE IF d.kind = "null" THEN CReturn("exists")
    ELSE IF ~IsObject(d) THEN CRaise("exists", "AttributeError")
    ELSE [CReturn("exists") EXCEPT !.flag = (d.version = CONTEXT_VERSION)]

\* is_stale, lines 109-122; fromisoformat raises ValueError for text that is
\* no ISO instant and TypeError for a value that is no string, and an instant
\* without UTC offset cannot be subtracted from now (TypeError).
older_or_equal(age) == age >= CONTEXT_MAX_AGE
older(age) == age > CONTEXT_MAX_AGE
is_stale(f, n) ==
    LET d == load(f)
        stale == [CReturn("is_stale") EXCEPT !.flag = TRUE]
    IN  IF CtxLoadRaises(f) THEN CRaise("is_stale", "UnicodeDecodeError")
        ELSE Guarded("is_stale", d, stale,
               IF d.lastRefreshed.k # "aware" THEN stale
               ELSE [stale EXCEPT !.flag = older(n - d.lastRefreshed.t)])

\* get, lines 124-126
get(f) ==
    IF CtxLoadRaises(f) THEN CRaise("get", "UnicodeDecodeError")
    ELSE [CReturn("get") EXCEPT !.data = load(f)]

\* get_scouts, lines 128-133, and get_organizations, lines 135-140
get_scouts(f) ==
    IF CtxLoadRaises(f) THEN CRaise("get_scouts", "UnicodeDecodeError")
    ELSE Guarded("get_scouts", load(f), CReturn("get_scouts"),
           [CReturn("get_scouts") EXCEPT !.list = load(f).scouts])
get_organizations(f) ==
    IF CtxLoadRaises(f) THEN CRaise("get_organizations", "UnicodeDecodeError")
    ELSE Guarded("get_organizations", load(f), CReturn("get_organizations"),
           [CReturn("get_organizations") EXCEPT !.list = load(f).organizations])

\* get_user, lines 142-147: None, or data.get('user').
get_user(f) ==
    IF CtxLoadRaises(f) THEN CRaise("get_user", "UnicodeDecodeError")
    ELSE Guarded("get_user", load(f), CReturn("get_user"),
           [CReturn("get_user") EXCEPT !.data = [NoCtx EXCEPT !.user = load(f).user]])

\* str.lower() and the "in" of two strings.
lower_char(c) == CASE c = "A" -> "a" [] c = "N" -> "n" [] OTHER -> c
lower(s) == [i \in 1..Len(s) |-> lower_char(s[i])]
contains(s, sub) ==
    \E i \in 0..(Len(s) - Len(sub)) : SubSeq(s, i + 1, i + Len(sub)) = sub

\* resolve_scout, lines 158-167
matches_case_sensitive(scout, query) ==
    \/ contains(scout.fullName, query)
    \/ contains(scout.firstName, query)
    \/ contains(scout.lastName, query)
matches(scout, query) ==
    \/ contains(lower(scout.fullName), lower(query))
    \/ contains(lower(scout.firstName), lower(query))
    \/ contains(lower(scout.lastName), lower(query))
RECURSIVE matching(_, _)
matching(scouts, query) ==
    IF scouts = <<>> THEN <<>>
    ELSE (IF matches(Head(scouts), query) THEN <<Head(scouts)>> ELSE <<>>)
         \o matching(Tail(scouts), query)
resolve_scout(f, query) ==
    LET g == get_scouts(f) IN
    IF g.kind = "raise" THEN [CRaise("resolve_scout", g.err) EXCEPT !.query = query]
    ELSE [CReturn("resolve_scout") EXCEPT !.list = matching(g.list, query),
                                          !.query = query]

\* show, lines 312-338
show(f, n) ==
    LET d == load(f) IN
    IF CtxLoadRaises(f) THEN CRaise("show", "UnicodeDecodeError")
    ELSE Guarded("show", d, [CReturn("show") EXCEPT !.status = "not_populated"],
           [CReturn("show") EXCEPT
              !.status = IF is_stale(f, n).flag THEN "stale" ELSE "current",
              !.data = d])

CtxIdle ==
    /\ upstream = NoUpstream
    /\ ctxFile = NoCtx
    /\ cresult = NoCResult
    /\ fetched = <<>>

\* ------------------------------------------- utils/safety.py: confirmation
\* What the operator, or the dialog program, gives back: text typed (with or
\* without blanks around it), a cancelled or unavailable dialog, the end of
\* input, an interrupt, or a dialog program that could not be started.
Answer(kind, body, lead, trail) ==
    [kind |-> kind, body |-> body, lead |-> lead, trail |-> trail]
NoAnswer == Answer("none", "", FALSE, FALSE)
\* str.strip: the text without the blanks around it.
strip_text(a) == a.body
\* generate_confirmation_code: "SEND-" and four characters drawn afresh.
Codes == {"SEND-A2B3", "SEND-X9K7", "SEND-QQ42"}
\* The run of `message send` before it starts.
NoSend ==
    [pc |-> "idle", dry_run |-> FALSE, forced |-> FALSE, tty |-> FALSE,
     code |-> "", answer |-> NoAnswer, asked |-> FALSE, confirmed |-> FALSE,
     sent |-> FALSE, status |-> "none"]
\* _show_gui_dialog: stdout.strip() when the dialog program exits with 0,
\* None when it exits otherwise, times out or is missing (zenity, kdialog);
\* a missing osascript or powershell raises FileNotFoundError.
show_gui_dialog(a) ==
    CASE a.kind = "text" -> [kind |-> "str", text |-> strip_text(a)]
      [] a.kind = "oserror" -> [kind |-> "raise", text |-> ""]
      [] OTHER -> [kind |-> "None", text |-> ""]
\* input("Confirmation: ").strip(); EOFError and KeyboardInterrupt are caught.
terminal_input(a) ==
    CASE a.kind = "text" -> [kind |-> "str", text |-> strip_text(a)]
      [] OTHER -> [kind |-> "cancelled", text |-> ""]
\* The comparison both paths of confirm_send_message end in.
accepts_any_text(response, code) == response.kind = "str"
accepts(response, code) == response.kind = "str" /\ response.text = code
\* confirm_send_message: (confirmed, code or None), or an exception.  After
\* a dialog that gave None the code goes on to the comparison, which fails.
confirm_send_message(gui, code, a) ==
    LET response == IF gui THEN show_gui_dialog(a) ELSE terminal_input(a) IN
    IF response.kind = "raise"
    THEN [kind |-> "raise", confirmed |-> FALSE, code |-> ""]
    ELSE IF accepts(response, code)
         THEN [kind |-> "return", confirmed |-> TRUE, code |-> code]
         ELSE [kind |-> "return", confirmed |-> FALSE, code |-> ""]
\* _is_gui_mode: SCOUTS_GUI_CONFIRM is set, or stdin is no terminal.
is_gui_mode(forced, tty) == forced \/ ~tty
\* MessageCommands.send_message: the preview of a dry run, or send_email.
send_message(dry_run) ==
    IF dry_run THEN [sent |-> FALSE, status |-> "dry_run"]
    ELSE [sent |-> TRUE, status |-> "sent"]

\* -------------------------------------------------------------------- Init
\* The two invocations of RaceSpec, and such an invocation before it starts.
Procs == {"A", "B"}
NoWriter == [pc |-> "idle", len |-> 0]
RaceIdle == disk = <<>> /\ wr = [p \in Procs |-> NoWriter] /\ send = NoSend

\* The credential machine before its first call.  A token file that exists
\* was written by an earlier run, which left it with mode 0600.
AuthInit ==
    /\ store \in InitStores
    /\ noBrowser \in BOOLEAN
    /\ playwright \in BOOLEAN
    /\ pc = "idle"
    /\ op = "none"
    /\ arg = NoneTok
    /\ cached = File("falsy")
    /\ headless = TRUE
    /\ deadline = 0
    /\ tok = NoneTok
    /\ sessions = <<>>
    /\ acq = NoAcq
    /\ result = NoResult
    /\ pre = store
    /\ preNow = now
    /\ acqInvoked = FALSE
    /\ polls = 0
    /\ lastPoll = 0
    /\ minGap = NoGap
    /\ mode = "owner"
    /\ lastRaw = NoRaw

Init == now = 1 /\ AuthInit /\ RaceIdle /\ CtxIdle

race == <<disk, wr, send>>
ctx == <<upstream, ctxFile, cresult, fetched>>
host == <<noBrowser, playwright, mode, race, ctx>>
env == <<host, lastRaw>>
locals == <<headless, deadline, tok>>
reads == <<polls, lastPoll, minGap>>

\* A top-level call starts (main.py dispatches one command at a time).
Begin(name, a) ==
    /\ pc = "idle"
    /\ now <= MaxNow
    /\ op' = name
    /\ arg' = a
    /\ pre' = store
    /\ preNow' = now
    /\ sessions' = <<>>
    /\ acq' = NoAcq
    /\ headless' = TRUE
    /\ deadline' = 0
    /\ tok' = NoneTok
    /\ polls' = 0
    /\ lastPoll' = 0
    /\ minGap' = NoGap
    /\ cached' = IF name = "get_token" THEN load_cached_token(store) ELSE File("falsy")

\* Time passes between two calls.
Tick ==
    /\ pc = "idle"
    /\ now < MaxNow
    /\ now' = now + 1
    /\ UNCHANGED <<store, env, pc, op, arg, cached, locals, sessions, acq,
                   result, pre, preNow, acqInvoked, reads>>

\* ------------------------------------------------------ auth.py: the calls
\* ScoutingAuth.get_token, lines 31-40 and, with SCOUTS_NO_BROWSER, 49-53.
get_token ==
    /\ Begin("get_token", NoneTok)
    /\ LET c == load_cached_token(store)
           e == is_expired(c, now)
       IN  IF LoadRaises(store)
           THEN result' = At(Raise("get_token", "UnicodeDecodeError", ""), now) /\ pc' = "idle"
           ELSE IF IsTruthy(c) /\ ~e.ok
           THEN result' = At(Raise("get_token", e.err, ""), now) /\ pc' = "idle"
           ELSE IF IsTruthy(c) /\ ~e.val
           THEN /\ result' = At(IF c.hasToken THEN Return("get_token", c.token)
                                ELSE Raise("get_token", "KeyError", "token"), now)
                /\ pc' = "idle"
           ELSE IF noBrowser
           THEN result' = At(manual_error(c, now), now) /\ pc' = "idle"
           ELSE result' = NoResult /\ pc' = "acquire"
    /\ acqInvoked' = (pc' = "acquire")
    /\ UNCHANGED <<store, now, env>>

\* get_token, lines 43-53, once acquire_token_via_browser has ended: ingest
\* and return the token; any exception falls through to the manual error.
get_token_resume ==
    /\ pc = "acquired"
    /\ op = "get_token"
    /\ LET l == login_with_token(acq.token, store, now) IN
       IF acq.kind = "token" /\ l.ok
       THEN store' = l.store /\ result' = At(Return("get_token", acq.token), now)
       ELSE store' = store /\ result' = At(manual_error(cached, now), now)
    /\ pc' = "idle"
    /\ UNCHANGED <<now, env, op, arg, cached, locals, sessions, acq, pre,
                   preNow, acqInvoked, reads>>

\* ScoutingAuth.get_token_info (auth status)
call_get_token_info ==
    /\ Begin("get_token_info", NoneTok)
    /\ result' = At(get_token_info(store, now), now)
    /\ pc' = "idle"
    /\ acqInvoked' = FALSE
    /\ UNCHANGED <<store, now, env>>

\* ScoutingAuth.login_with_token (auth login --token t)
call_login_with_token(t) ==
    /\ Begin("login_with_token", t)
    /\ LET l == login_with_token(t, store, now) IN
       /\ store' = l.store
       /\ result' = At(IF l.ok THEN Return("login_with_token", t)
                       ELSE Raise("login_with_token", l.err, l.msg), now)
    /\ pc' = "idle"
    /\ acqInvoked' = FALSE
    /\ UNCHANGED <<now, env>>

\* ScoutingAuth.login_with_browser, lines 123-124
login_with_browser_cache_first ==
    /\ Begin("login_with_browser", NoneTok)
    /\ LET c == load_cached_token(store)
           e == is_expired(c, now)
       IN  IF IsTruthy(c) /\ e.ok /\ ~e.val
           THEN /\ result' = At([get_token_info(store, now) EXCEPT !.op = "login_with_browser"], now)
                /\ pc' = "idle"
                /\ acqInvoked' = FALSE
           ELSE /\ result' = NoResult
                /\ pc' = "acquire"
                /\ acqInvoked' = TRUE
    /\ UNCHANGED <<store, now, env>>
login_with_browser ==
    /\ Begin("login_with_browser", NoneTok)
    /\ result' = NoResult
    /\ pc' = "acquire"
    /\ acqInvoked' = TRUE
    /\ UNCHANGED <<store, now, env>>

\* login_with_browser, lines 125-126, once acquire_token_via_browser has
\* ended: its exception, or login_with_token's, propagates.
login_with_browser_resume ==
    /\ pc = "acquired"
    /\ op = "login_with_browser"
    /\ LET l == login_with_token(acq.token, store, now) IN
       IF acq.kind # "token"
       THEN /\ store' = store
            /\ result' = At([Raise("login_with_browser", acq.err, acq.msg)
                               EXCEPT !.timeout = acq.timeout], now)
       ELSE /\ store' = l.store
            /\ result' = At(IF l.ok
                            THEN [get_token_info(l.store, now) EXCEPT !.op = "login_with_browser"]
                            ELSE Raise("login_with_browser", l.err, l.msg), now)
    /\ pc' = "idle"
    /\ UNCHANGED <<now, env, op, arg, cached, locals, sessions, acq, pre,
                   preNow, acqInvoked, reads>>

\* ScoutingAuth.logout, lines 130-131
logout_unchecked ==
    /\ Begin("logout", NoneTok)
    /\ store' = NoFile
    /\ result' = At(IF store = NoFile THEN Raise("logout", "FileNotFoundError", "")
                    ELSE Return("logout", NoneTok), now)
    /\ pc' = "idle"
    /\ acqInvoked' = FALSE
    /\ UNCHANGED <<now, env>>
logout ==
    /\ Begin("logout", NoneTok)
    /\ store' = NoFile
    /\ result' = At(Return("logout", NoneTok), now)
    /\ pc' = "idle"
    /\ acqInvoked' = FALSE
    /\ UNCHANGED <<now, env>>

\* ---------------------------------------------- browser_auth.py: the steps
\* acquire_token_via_browser, line 98: _check_playwright_available.
acquire_check ==
    /\ pc = "acquire"
    /\ IF playwright THEN pc' = "launch" /\ acq' = acq
       ELSE pc' = "acquired" /\ acq' = PlaywrightMissing
    /\ UNCHANGED <<store, now, env, op, arg, cached, locals, sessions, result,
                   pre, preNow, acqInvoked, reads>>

\* _try_acquire, lines 142-148: the persistent context is launched.
launch_ok ==
    /\ pc = "launch"
    /\ sessions' = Append(sessions, Launched(headless))
    /\ pc' = "navigate"
    /\ UNCHANGED <<store, now, env, op, arg, cached, locals, acq, result, pre,
                   preNow, acqInvoked, reads>>

\* _try_acquire, lines 142-148: sync_playwright() or the launch raises (no
\* Chrome, profile in use); the lines are outside the try, so the exception
\* leaves _try_acquire and acquire_token_via_browser.
launch_fails ==
    /\ pc = "launch"
    /\ acq' = AcqRaises("PlaywrightError", "launch", PhaseNo(headless))
    /\ pc' = "acquired"
    /\ UNCHANGED <<store, now, env, op, arg, cached, locals, sessions, result,
                   pre, preNow, acqInvoked, reads>>

SetOutcome(o) == [sessions EXCEPT ![Len(sessions)].outcome = o]

\* _try_acquire, lines 150-157 raise (no page, navigation error): the
\* except clause returns None.
navigate_fails ==
    /\ pc = "navigate"
    /\ tok' = NoneTok
    /\ sessions' = SetOutcome("error")
    /\ pc' = "close"
    /\ UNCHANGED <<store, now, env, op, arg, cached, headless, deadline, acq,
                   result, pre, preNow, acqInvoked, reads>>

\* _try_acquire, lines 150-164: the page loads and LOGIN_DATA is read once;
\* without a token _poll_for_token starts and sets its deadline (line 73).
\* The read gives raw; seen is what lastRaw keeps of it.
first_read(raw, seen) ==
    /\ pc = "navigate"
    /\ LET token == extract_token_from_page(raw) IN
       IF Truthy(token)
       THEN /\ tok' = token
            /\ sessions' = SetOutcome("token")
            /\ deadline' = deadline
            /\ pc' = "close"
       ELSE /\ tok' = tok
            /\ sessions' = sessions
            /\ deadline' = now + PhaseTimeout(headless)
            /\ pc' = "poll"
    /\ polls' = 1
    /\ lastPoll' = now
    /\ minGap' = NoGap
    /\ lastRaw' = seen
    /\ UNCHANGED <<store, now, host, op, arg, cached, headless, acq, result,
                   pre, preNow, acqInvoked>>
navigate_ok ==
    /\ pc = "navigate"
    /\ \E raw \in RawValues : first_read(raw, lastRaw)

\* _poll_for_token, lines 74-79: one turn of the loop, or its end.
\* A turn in which the read gives raw; seen is what lastRaw keeps of it.
poll_turn(raw, seen) ==
    /\ pc = "poll"
    /\ IF before_deadline(now, deadline)
       THEN /\ polls' = polls + 1
            /\ lastPoll' = now
            /\ minGap' = least_gap(minGap, lastPoll, now)
            /\ lastRaw' = seen
            /\ LET token == extract_token_from_page(raw) IN
               IF Truthy(token)
               THEN /\ tok' = token
                    /\ sessions' = SetOutcome("token")
                    /\ now' = now
                    /\ pc' = "close"
               ELSE /\ tok' = tok
                    /\ sessions' = sessions
                    /\ now' = now + BROWSER_POLL_INTERVAL
                    /\ pc' = "poll"
       ELSE /\ tok' = NoneTok
            /\ sessions' = SetOutcome("deadline")
            /\ now' = now
            /\ pc' = "close"
            /\ UNCHANGED <<reads, lastRaw>>
    /\ UNCHANGED <<store, host, op, arg, cached, headless, deadline, acq, result,
                   pre, preNow, acqInvoked>>
poll ==
    /\ pc = "poll"
    /\ \E raw \in RawValues : poll_turn(raw, lastRaw)

\* _try_acquire, line 170 (finally: context.close()), and what
\* acquire_token_via_browser does with the phase's token (lines 106-126).
close ==
    /\ pc = "close"
    /\ sessions' = [sessions EXCEPT ![Len(sessions)] = Closed(@)]
    /\ LET next == after_phase(headless, tok) IN
       /\ headless' = IF next = "phase2" THEN FALSE ELSE headless
       /\ pc' = IF next = "phase2" THEN "launch" ELSE "acquired"
       /\ acq' = CASE next = "return" -> AcqToken(tok, PhaseNo(headless))
                   [] next = "fail" -> TimedOut
                   [] OTHER -> acq
    /\ UNCHANGED <<store, now, env, op, arg, cached, deadline, tok, result,
                   pre, preNow, acqInvoked, reads>>

Next ==
    \/ Tick
    \/ get_token
    \/ get_token_resume
    \/ call_get_token_info
    \/ \E t \in Tokens : call_login_with_token(t)
    \/ login_with_browser
    \/ login_with_browser_resume
    \/ logout
    \/ acquire_check
    \/ launch_ok
    \/ launch_fails
    \/ navigate_fails
    \/ navigate_ok
    \/ poll
    \/ close

Spec == Init /\ [][Next]_vars

\* ------------------------------------------------ the acquisition, running on
\* auth login calls that start with nothing cached.  The thread runs on: every
\* statement of acquire_token_via_browser returns or raises (page.goto has a
\* timeout, time.sleep returns).
PollInit == Init /\ store = NoFile /\ ~noBrowser
AcquisitionStep ==
    \/ acquire_check
    \/ launch_ok
    \/ launch_fails
    \/ navigate_fails
    \/ navigate_ok
    \/ poll
    \/ close
PollNext ==
    \/ login_with_browser
    \/ login_with_browser_resume
    \/ AcquisitionStep
PollSpec == PollInit /\ [][PollNext]_vars /\ WF_vars(AcquisitionStep)

\* ------------------------------------------------- the reads of LOGIN_DATA
\* The first phase of an acquisition up to the end of its polling, where
\* lastRaw keeps what page.evaluate gave at the last read.
navigate_observed ==
    /\ pc = "navigate"
    /\ \E raw \in RawValues : first_read(raw, raw)
poll_observed ==
    /\ pc = "poll"
    /\ \E raw \in RawValues : poll_turn(raw, raw)
ExtractInit == PollInit /\ playwright
ExtractNext ==
    \/ login_with_browser
    \/ acquire_check
    \/ launch_ok
    \/ navigate_observed
    \/ poll_observed
ExtractSpec == ExtractInit /\ [][ExtractNext]_vars

\* ------------------------------------------ a save, and the process killed
\* login_with_token step by step, where the process can be terminated between
\* two steps and the program started again.  call_login_with_token is
\* save_begin, save_open, save_dump and save_chmod with no step in between.

\* login_with_token, lines 68-98: the token is checked and token_data built.
save_begin(t) ==
    /\ Begin("login_with_token", t)
    /\ LET l == login_with_token(t, store, now) IN
       IF l.ok THEN result' = NoResult /\ pc' = "open"
       ELSE result' = At(Raise("login_with_token", l.err, l.msg), now) /\ pc' = "idle"
    /\ acqInvoked' = FALSE
    /\ UNCHANGED <<store, now, env>>

\* The mode open(TOKEN_FILE, 'w') gives a file it creates: 0666 less the
\* umask, readable by other users under the usual umask 022.
created_mode == "shared"

\* line 101: open(TOKEN_FILE, 'w') creates the file or truncates it to no
\* bytes; a file that exists keeps its mode.
save_open ==
    /\ pc = "open"
    /\ store' = File("unparseable")
    /\ mode' = IF store.kind = "nofile" THEN created_mode ELSE mode
    /\ pc' = "dump"
    /\ UNCHANGED <<now, noBrowser, playwright, race, ctx, lastRaw, op, arg, cached, locals,
                   sessions, acq, result, pre, preNow, acqInvoked, reads>>

\* lines 101-102: json.dump writes token_data piece by piece into the file's
\* buffer, which reaches the file when it fills and when the with block
\* closes the file; until then the file holds nothing or a prefix.
save_dump ==
    /\ pc = "dump"
    /\ store' = login_with_token(arg, pre, preNow).store
    /\ pc' = "chmod"
    /\ UNCHANGED <<now, env, op, arg, cached, locals, sessions, acq, result,
                   pre, preNow, acqInvoked, reads>>

\* lines 105-106: os.chmod(TOKEN_FILE, 0o600) where sys.platform is not
\* win32 (the platforms with per-user modes), and login_with_token returns.
save_chmod ==
    /\ pc = "chmod"
    /\ mode' = "owner"
    /\ result' = At(Return("login_with_token", arg), now)
    /\ pc' = "idle"
    /\ UNCHANGED <<store, now, noBrowser, playwright, race, ctx, lastRaw, op, arg, cached,
                   locals, sessions, acq, pre, preNow, acqInvoked, reads>>

\* The process is terminated while login_with_token saves the record.
terminate ==
    /\ pc \in {"open", "dump", "chmod"}
    /\ pc' = "dead"
    /\ UNCHANGED <<store, now, env, op, arg, cached, locals, sessions, acq,
                   result, pre, preNow, acqInvoked, reads>>

\* The program is started again.
restart ==
    /\ pc = "dead"
    /\ pc' = "idle"
    /\ UNCHANGED <<store, now, env, op, arg, cached, locals, sessions, acq,
                   result, pre, preNow, acqInvoked, reads>>

SaveNext ==
    \/ Tick
    \/ \E t \in Tokens : save_begin(t)
    \/ save_open
    \/ save_dump
    \/ save_chmod
    \/ terminate
    \/ restart
    \/ call_get_token_info
    \/ logout

SaveSpec == Init /\ [][SaveNext]_vars

\* ============================================== two invocations, one file
\* login_with_token (auth.py 101-102) and ScoutContext._save (context.py
\* 100-101) write their file alike: open(path, 'w'), json.dump, close.  Two
\* invocations of the program do so with no lock; each has its own file
\* object, with its own buffer and its own offset.

\* The record of invocation p in n pieces, and what an earlier run left.
Content(p, n) == [i \in 1..n |-> p]
PriorContents == {Content("old", n) : n \in 0..MaxRecLen}

\* write(2) of buf at offset 0 of a file holding d: the bytes of d past the
\* end of buf stay.
pwrite(d, buf) == buf \o SubSeq(d, Len(buf) + 1, Len(d))

RaceInit ==
    /\ now = 1
    /\ AuthInit /\ store = NoFile /\ ~noBrowser /\ playwright
    /\ CtxIdle
    /\ disk \in PriorContents
    /\ wr \in [Procs -> [pc : {"idle"}, len : 1..MaxRecLen]]
    /\ send = NoSend

\* open(path, 'w'): the file is truncated to no bytes; p's offset is 0.
writer_open(p) ==
    /\ wr[p].pc = "idle"
    /\ disk' = <<>>
    /\ wr' = [wr EXCEPT ![p].pc = "open"]
    /\ UNCHANGED <<store, now, noBrowser, playwright, mode, ctx, lastRaw, send, pc, op, arg, cached,
                   locals, sessions, acq, result, pre, preNow, acqInvoked,
                   reads>>

\* json.dump fills p's buffer and the end of the with block flushes it: the
\* whole record (smaller than the buffer) is written at p's offset.
writer_close(p) ==
    /\ wr[p].pc = "open"
    /\ disk' = pwrite(disk, Content(p, wr[p].len))
    /\ wr' = [wr EXCEPT ![p].pc = "closed"]
    /\ UNCHANGED <<store, now, noBrowser, playwright, mode, ctx, lastRaw, send, pc, op, arg, cached,
                   locals, sessions, acq, result, pre, preNow, acqInvoked,
                   reads>>

RaceNext ==
    \/ \E p \in Procs : writer_open(p)
    \/ \E p \in Procs : writer_close(p)

RaceSpec == RaceInit /\ [][RaceNext]_vars

\* ====================================================== the context cache
\* Calls on a new ScoutContext, as main.py makes them, while no call on
\* ScoutingAuth is running.  The clock of these runs starts at CtxEpoch.
CtxEpoch == CONTEXT_MAX_AGE + 100
auth == <<store, noBrowser, playwright, mode, race, lastRaw, pc, op, arg, cached, locals,
          sessions, acq, result, pre, preNow, acqInvoked, reads>>
CAt(r, n) == [r EXCEPT !.at = n]

ctx_tick ==
    /\ now < CtxEpoch + MaxNow
    /\ now' = now + 1
    /\ UNCHANGED <<auth, ctx>>

\* ScoutContext.refresh, lines 178-310: token_info is read outside any try;
\* a credential file with no record gives {} and so no uid and no pgu.
refresh_keeping ==
    /\ pc = "idle"
    /\ LET info == get_token_info(store, now)
           u == IF info.rec.kind = "dict" THEN upstream
                ELSE [upstream EXCEPT !.uid = "", !.pgu = ""]
           data == save(IF ctxFile.kind = "dict"
                        THEN [refresh_data(u) EXCEPT
                                !.organizations = ctxFile.organizations \o @]
                        ELSE refresh_data(u), now)
       IN  IF info.kind = "raise"
           THEN /\ cresult' = CAt(CRaise("refresh", info.err), now)
                /\ fetched' = <<>>
                /\ UNCHANGED ctxFile
           ELSE /\ ctxFile' = data
                /\ cresult' = CAt([CReturn("refresh") EXCEPT !.data = data], now)
                /\ fetched' = fetches(u)
    /\ UNCHANGED <<auth, now, upstream>>
refresh ==
    /\ pc = "idle"
    /\ LET info == get_token_info(store, now)
           u == IF info.rec.kind = "dict" THEN upstream
                ELSE [upstream EXCEPT !.uid = "", !.pgu = ""]
           data == save(refresh_data(u), now)
       IN  IF info.kind = "raise"
           THEN /\ cresult' = CAt(CRaise("refresh", info.err), now)
                /\ fetched' = <<>>
                /\ UNCHANGED ctxFile
           ELSE /\ ctxFile' = data
                /\ cresult' = CAt([CReturn("refresh") EXCEPT !.data = data], now)
                /\ fetched' = fetches(u)
    /\ UNCHANGED <<auth, now, upstream>>

\* A read: nothing but its value changes.
Local == pc = "idle" /\ UNCHANGED <<auth, now, upstream, ctxFile, fetched>>

call_exists ==
    /\ cresult' = CAt(exists(ctxFile), now)
    /\ Local
call_is_stale ==
    /\ cresult' = CAt(is_stale(ctxFile, now), now)
    /\ Local
call_get ==
    /\ cresult' = CAt(get(ctxFile), now)
    /\ Local
call_get_scouts_refreshing ==
    /\ pc = "idle"
    /\ ctxFile' = IF exists(ctxFile).flag THEN ctxFile
                  ELSE save(refresh_data(upstream), now)
    /\ cresult' = CAt(get_scouts(ctxFile'), now)
    /\ UNCHANGED <<auth, now, upstream, fetched>>
call_get_scouts ==
    /\ cresult' = CAt(get_scouts(ctxFile), now)
    /\ Local
call_get_organizations ==
    /\ cresult' = CAt(get_organizations(ctxFile), now)
    /\ Local
call_get_user ==
    /\ cresult' = CAt(get_user(ctxFile), now)
    /\ Local
call_resolve_scout(query) ==
    /\ cresult' = CAt(resolve_scout(ctxFile, query), now)
    /\ Local
call_show ==
    /\ cresult' = CAt(show(ctxFile, now), now)
    /\ Local

\* ------------------------------------------------ what refresh is run on
Guids == {"g1", "g2"}
Persons == {"p1", "p2"}
SeqsUpTo(S, n) == UNION {[1..k -> S] : k \in 0..n}
\* A credential record that get_token_info reads.
GoodRec == Rec(FarTok, EaAware(FarFuture))

\* A profile with two positions in g1, one of them listed twice, and a
\* position without organizationGuid; and a profile with no positions.
G1Profile ==
    Profile("P", <<OrgPosition("g1", <<"Den Leader", "", "Den Leader">>),
                   OrgPosition("", <<"Chartered Org Rep">>),
                   OrgPosition("g1", <<"Committee Member">>)>>)
ProfileChoices == {Profile("", <<>>), G1Profile}

\* my-scouts records of up to two persons, in up to two organizations.
MergeRecords ==
    {Scout(pg, guid, pos) :
        pg \in Persons \cup {""}, guid \in Guids \cup {""},
        pos \in {"", "Den Chief", "Patrol Leader"}}
MergeInputs ==
    {Upstream("u1", "pg1", G1Profile, scouts, <<>>) :
        scouts \in SeqsUpTo(MergeRecords, MaxRecs)}

\* Records of one person in g1, an organization that the profile gives or
\* not, that differ in what they say of it.
StubRecords ==
    {[Scout("p1", "g1", "") EXCEPT !.unitType = unit[1], !.unitNumber = unit[2],
                                   !.organizationName = name, !.program = program] :
        unit \in {<<"", "">>, <<"Troop", "">>, <<"Troop", "5">>},
        name \in {"", "First Church"},
        program \in {"", "Cub Scouting"}}
StubInputs ==
    {Upstream("u1", "pg1", prof, scouts, roles) :
        prof \in ProfileChoices, scouts \in SeqsUpTo(StubRecords, MaxRecs),
        roles \in {<<>>, <<Role("g1", "Scouts BSA")>>}}

\* Role entries of known, unknown and missing organizations.
RoleRecords ==
    {Role(guid, program) :
        guid \in Guids \cup {"", "g9"}, program \in {"", "Scouts BSA", "Venturing"}}
RoleInputs ==
    {Upstream("u1", "pg1", G1Profile, scouts, roles) :
        scouts \in {<<>>, <<Scout("p1", "g2", "")>>,
                    <<[Scout("p1", "g2", "") EXCEPT !.program = "Cub Scouting"]>>},
        roles \in SeqsUpTo(RoleRecords, MaxRecs)}

\* Records of two persons in two organizations, one of them with the other's
\* userId, and an element of the answer that is no object.
NoObject == [Scout("", "", "") EXCEPT !.ok = FALSE]
SummaryRecords ==
    {Scout("p1", "g1", ""), Scout("p1", "g2", ""), Scout("p2", "g2", ""),
     [Scout("p2", "g1", "") EXCEPT !.userId = "p1"], NoObject}
SummaryInputs ==
    {Upstream("u1", "pg1", prof, scouts, <<>>) :
        prof \in ProfileChoices, scouts \in SeqsUpTo(SummaryRecords, MaxRecs)}

\* Every combination of the four fetches failing, with and without uid and
\* pgu in the credential record.
FullUpstream ==
    Upstream("u1", "pg1",
             Profile("P", <<OrgPosition("g1", <<"Den Leader">>)>>),
             <<[Scout("p1", "g2", "Den Chief") EXCEPT !.unitType = "Troop"],
               Scout("p2", "g1", "")>>,
             <<Role("g1", "Scouts BSA"), Role("g2", "Venturing")>>)
FailInputs ==
    {[FullUpstream EXCEPT !.uid = uid, !.pgu = pgu, !.fail = f] :
        uid \in {"", "u1"}, pgu \in {"", "pg1"},
        f \in [{"profile1", "profile2", "my_scouts", "role_types"} -> BOOLEAN]}
\* Credential files refresh may find: a record, none, and one whose
\* expires_at get_token_info cannot compare.
CtxStores == {GoodRec, NoFile, Rec(FarTok, EaNaive(1))}

CtxInit ==
    /\ now = CtxEpoch
    /\ AuthInit /\ ~noBrowser /\ playwright
    /\ RaceIdle
    /\ cresult = NoCResult
    /\ fetched = <<>>

\* The snapshot an earlier pass saved, of a user, an organization and a
\* scout that no answer of this run mentions.  The passes whose fetches may
\* fail start over it, the others with no snapshot.
PriorUpstream ==
    Upstream("u9", "pg9", Profile("Q", <<OrgPosition("g9", <<"Scoutmaster">>)>>),
             <<Scout("p9", "g9", "")>>, <<>>)
PriorSnapshot == save(refresh_data(PriorUpstream), CtxEpoch - 60)

RefreshInit ==
    /\ CtxInit
    /\ \/ /\ store = GoodRec
          /\ upstream \in MergeInputs \cup StubInputs \cup RoleInputs \cup SummaryInputs
          /\ ctxFile = NoCtx
       \/ /\ store \in CtxStores
          /\ upstream \in FailInputs
          /\ ctxFile = PriorSnapshot

RefreshSpec == RefreshInit /\ [][refresh]_vars

\* ---------------------------------------------- what the reads are run on
\* Characters of names: two letters in both cases, and the space.
FirstNames == {<<>>, <<"A", "n">>, <<"N", "a">>}
LastNames == {<<>>, <<"n", "A">>}
Queries == {<<>>, <<"a">>, <<"A", "N">>, <<"n", " ", "n">>, <<"a", "a">>}
NamedRecords(pg) ==
    {[Scout(pg, "g1", "") EXCEPT !.firstName = first, !.lastName = last] :
        first \in FirstNames, last \in LastNames}
ReadInputs ==
    {Upstream("u1", "pg1", Profile("P", <<>>), scouts, <<>>) :
        scouts \in {<<>>} \cup {<<a>> : a \in NamedRecords("p1")}
                   \cup {<<a, b>> : a \in NamedRecords("p1"), b \in NamedRecords("p2")}}

\* The UTC instants of earlier saves: one minute, exactly seven days and more
\* than seven days before CtxEpoch, and one ahead of the clock.
RefreshedInstants ==
    {CtxEpoch - 60, CtxEpoch - CONTEXT_MAX_AGE, CtxEpoch - CONTEXT_MAX_AGE - 1,
     CtxEpoch + MaxNow + 1}
\* CONTEXT_FILE as an earlier run or an editor left it.
ReadFiles ==
    {CtxFile(k) : k \in {"nofile", "unparseable", "undecodable", "null",
                         "emptydict", "falsy", "nondict"}}
    \cup {save(refresh_data(FullUpstream), t) : t \in RefreshedInstants}
    \cup {[save(refresh_data(FullUpstream), CtxEpoch) EXCEPT !.lastRefreshed = ea] :
            ea \in {EaNone, EaGarbage, EaNonStr, EaNaive(CtxEpoch - 60)}}
    \cup {[save(refresh_data(FullUpstream), CtxEpoch - 60) EXCEPT !.version = 0]}
    \cup {save(refresh_data(u), CtxEpoch - 60) : u \in ReadInputs}

ReadInit ==
    /\ CtxInit
    /\ store = GoodRec
    /\ upstream = FullUpstream
    /\ ctxFile \in ReadFiles

ReadNext ==
    \/ ctx_tick
    \/ refresh
    \/ call_exists
    \/ call_is_stale
    \/ call_get
    \/ call_get_scouts
    \/ call_get_organizations
    \/ call_get_user
    \/ \E query \in Queries : call_resolve_scout(query)
    \/ call_show

ReadSpec == ReadInit /\ [][ReadNext]_vars

\* ------------------------------------------- main: the automatic refresh
\* main, lines 380-392: whether a command that needs a client refreshes the
\* context before it is dispatched; an exception of exists or is_stale ends
\* the run in main's handler.
auto_refresh(f, n) ==
    LET e == exists(f)
        st == is_stale(f, n)
    IN  IF e.kind = "raise" THEN [kind |-> "raise", err |-> e.err, run |-> FALSE]
        ELSE IF ~e.flag THEN [kind |-> "return", err |-> "", run |-> TRUE]
        ELSE IF st.kind = "raise" THEN [kind |-> "raise", err |-> st.err, run |-> FALSE]
        ELSE [kind |-> "return", err |-> "", run |-> st.flag]

\* A command that needs a client, up to its dispatch: status tells whether a
\* refresh pass ran, kind whether the command was reached.
main_command ==
    /\ pc = "idle"
    /\ LET a == auto_refresh(ctxFile, now)
           info == get_token_info(store, now)
           u == IF info.rec.kind = "dict" THEN upstream
                ELSE [upstream EXCEPT !.uid = "", !.pgu = ""]
           data == save(refresh_data(u), now)
       IN  IF a.kind = "raise"
           THEN /\ cresult' = CAt([CRaise("main", a.err) EXCEPT !.status = "no_refresh"], now)
                /\ fetched' = <<>>
                /\ UNCHANGED ctxFile
           ELSE IF ~a.run
           THEN /\ cresult' = CAt([CReturn("main") EXCEPT !.status = "no_refresh"], now)
                /\ fetched' = <<>>
                /\ UNCHANGED ctxFile
           ELSE IF info.kind = "raise"
           THEN /\ cresult' = CAt([CRaise("main", info.err) EXCEPT !.status = "refresh"], now)
                /\ fetched' = <<>>
                /\ UNCHANGED ctxFile
           ELSE /\ ctxFile' = data
                /\ cresult' = CAt([CReturn("main") EXCEPT !.status = "refresh"], now)
                /\ fetched' = fetches(u)
    /\ UNCHANGED <<auth, now, upstream>>

DispatchInit ==
    /\ CtxInit
    /\ store \in CtxStores
    /\ upstream = FullUpstream
    /\ ctxFile \in ReadFiles

DispatchNext ==
    \/ ctx_tick
    \/ main_command

DispatchSpec == DispatchInit /\ [][DispatchNext]_vars

\* ======================================================== `message send`
\* What may be typed: a code, the empty text, a code in lower case, the
\* fixed part of a code; with or without blanks around it.
Bodies == Codes \cup {"", "send-a2b3", "SEND-"}
Answers ==
    {Answer("text", b, l, t) : b \in Bodies, l \in BOOLEAN, t \in BOOLEAN}
    \cup {Answer(k, "", FALSE, FALSE) : k \in {"none", "eof", "interrupt", "oserror"}}

\* main, branch `message send`: unless --dry-run was given it asks for the
\* confirmation and exits when that is refused; then it calls send_message.
main_send ==
    /\ send.pc = "idle"
    /\ \E code \in Codes, a \in Answers :
         LET c == confirm_send_message(is_gui_mode(send.forced, send.tty), code, a)
             asked == [send EXCEPT !.pc = "done", !.asked = TRUE, !.code = code,
                                   !.answer = a]
         IN  send' =
               IF send.dry_run
               THEN [send EXCEPT !.pc = "done",
                                 !.sent = send_message(TRUE).sent,
                                 !.status = send_message(TRUE).status]
               ELSE IF c.kind = "raise"
               THEN [asked EXCEPT !.status = "raise"]
               ELSE IF ~c.confirmed
               THEN [asked EXCEPT !.status = "cancelled"]
               ELSE [asked EXCEPT !.confirmed = TRUE,
                                  !.sent = send_message(FALSE).sent,
                                  !.status = send_message(FALSE).status]
    /\ UNCHANGED <<store, now, noBrowser, playwright, mode, disk, wr, ctx, lastRaw,
                   pc, op, arg, cached, locals, sessions, acq, result, pre,
                   preNow, acqInvoked, reads>>

SendInit ==
    /\ now = 1
    /\ AuthInit /\ store = NoFile /\ ~noBrowser /\ playwright
    /\ CtxIdle
    /\ disk = <<>> /\ wr = [p \in Procs |-> NoWriter]
    /\ send \in {[NoSend EXCEPT !.dry_run = d, !.forced = f, !.tty = t] :
                  d \in BOOLEAN, f \in BOOLEAN, t \in BOOLEAN}

SendSpec == SendInit /\ [][main_send]_vars

\* ================================================================== claims
\* A cached record that is usable at instant n: an object whose expires_at is
\* a UTC instant still ahead; and one whose expires_at has been reached.
ValidRecord(s, n) == s.kind = "dict" /\ s.expires_at.k = "aware" /\ n < s.expires_at.t
LapsedRecord(s, n) == s.kind = "dict" /\ s.expires_at.k = "aware" /\ n >= s.expires_at.t
Done(name) == pc = "idle" /\ result.op = name

\* C1: get_token returns the cached token, with no acquisition and no browser
\* session, when the cached record is present and not expired; for a record
\* whose expires_at has been reached it returns only after an acquisition
\* that succeeded in the same call, and then the acquired token; and
\* get_token_info reports such a record as expired.
C1_CachedTokenOnlyWhileValid ==
    /\ Done("get_token") =>
         /\ (ValidRecord(pre, preNow) /\ pre.hasToken) =>
               /\ result = At(Return("get_token", pre.token), preNow)
               /\ ~acqInvoked
               /\ sessions = <<>>
               /\ store = pre
         /\ (LapsedRecord(pre, preNow) /\ result.kind = "return") =>
               /\ acqInvoked
               /\ acq.kind = "token"
               /\ result.token = acq.token
               /\ store.token = acq.token
    /\ LapsedRecord(store, now) =>
         /\ get_token_info(store, now).kind = "return"
         /\ get_token_info(store, now).expired
\* The cached record had lapsed and the browser handed back the very same
\* token: it is returned, after a re-acquisition.
C1_Witness ==
    /\ Done("get_token")
    /\ LapsedRecord(pre, preNow)
    /\ result.kind = "return"
    /\ result.token = pre.token

\* C2 (as claimed): for every stored expires_at the expiry check answers, and
\* answers "expired" exactly when the record has no UTC instant still ahead.
C2_ExpiryCheckTotal ==
    (Done("get_token_info") /\ pre.kind = "dict") =>
        /\ result.kind = "return"
        /\ result.expired <=> ~ValidRecord(pre, preNow)

\* C3: when get_token returns after calling the acquisition, the token it
\* returns is the acquired one and TOKEN_FILE holds a record with that token;
\* and it does return whenever the acquired token can be ingested.
C3_AcquiredTokenPersistedBeforeReturn ==
    (Done("get_token") /\ acqInvoked) =>
        /\ result.kind = "return" =>
              /\ acq.kind = "token"
              /\ result.token = acq.token
              /\ store.kind = "dict" /\ store.hasToken
              /\ store.token = result.token
        /\ (acq.kind = "token" /\ login_with_token(acq.token, pre, result.at).ok) =>
              result.kind = "return"
\* get_token returned an acquired token that replaced another cached token.
C3_Witness ==
    /\ Done("get_token")
    /\ acqInvoked
    /\ result.kind = "return"
    /\ pre.kind = "dict"
    /\ pre.token # result.token

\* C4 (as claimed): whenever get_token returns a token, the stored record for
\* that token is not expired at that moment.
C4_ReturnedTokenUsable ==
    (Done("get_token") /\ result.kind = "return") =>
        /\ store.kind = "dict"
        /\ store.token = result.token
        /\ ValidRecord(store, result.at)

\* The tokens C5 is about: no "eyJ" prefix, not three segments, a claims
\* segment that does not decode, or no expiry claim.
Malformed(t) ==
    \/ ~t.prefix
    \/ t.parts # 3
    \/ t.plen = 1
    \/ t.body # "object"
    \/ t.exp.k = "absent"
\* C5 (as claimed): login_with_token of such a token raises
\* AuthenticationError and leaves TOKEN_FILE as it was.
C5_MalformedRejected ==
    (Done("login_with_token") /\ Malformed(arg)) =>
        /\ result.kind = "raise"
        /\ result.err = "AuthenticationError"
        /\ store = pre

\* A well-formed token whose expiry claim is a timestamp (one datetime can
\* hold) after instant n.
WellFormedFuture(t, n) ==
    /\ t.prefix /\ t.parts = 3 /\ t.plen # 1 /\ t.body = "object"
    /\ t.exp.k = "num" /\ t.exp.t > n
\* C6: login_with_token(t) of a well-formed token with a future expiry
\* succeeds, and get_token_info() right after it returns a record whose token
\* is t and whose is_expired is false, whatever TOKEN_FILE held before.
C6_IngestRoundTrip ==
    (Done("login_with_token") /\ WellFormedFuture(arg, result.at)) =>
        /\ result.kind = "return"
        /\ LET info == get_token_info(store, result.at) IN
           /\ info.kind = "return"
           /\ info.rec.kind = "dict"
           /\ info.rec.hasToken
           /\ info.rec.token = arg
           /\ ~info.expired
\* Such a token was ingested over a record of another token.
C6_Witness ==
    /\ Done("login_with_token")
    /\ WellFormedFuture(arg, result.at)
    /\ pre.kind = "dict"
    /\ pre.token # arg
    /\ store.token = arg

SessionIds == 1..Len(sessions)
\* C7: at most one session is open at any time; a headed session is the
\* second one, launched after the headless one was closed having found no
\* token; and a headless phase that found a token is the only session of an
\* acquisition that ends with that token.
C7_HeadedOnlyAfterSilentClosed ==
    /\ Cardinality({i \in SessionIds : sessions[i].open}) <= 1
    /\ \A i \in SessionIds : ~sessions[i].headless =>
          /\ i = 2
          /\ sessions[1].headless
          /\ ~sessions[1].open
          /\ sessions[1].closes = 1
          /\ sessions[1].outcome \in {"deadline", "error"}
    /\ (sessions # <<>> /\ sessions[1].outcome = "token") =>
          /\ Len(sessions) = 1
          /\ pc \in {"acquired", "idle"} => acq = AcqToken(tok, 1)
\* The headed session is open.
C7_Witness ==
    /\ Len(sessions) = 2
    /\ sessions[2].open
    /\ ~sessions[2].headless

\* C8 (as claimed): no failure of phase 1 leaves the acquisition as an error,
\* and after a failed phase 1 the acquisition goes on to phase 2.
C8_SilentFailureSwallowed ==
    /\ ~(acq.kind = "raise" /\ acq.phase = 1)
    /\ (pc \in {"acquired", "idle"} /\ sessions # <<>> /\ sessions[1].outcome = "error") =>
          acq.phase = 2

\* C9: a session is open only while its phase runs; whenever no phase runs
\* every launched session has been closed exactly once, whether its phase
\* found a token, ran to its deadline or failed; and when both phases ran and
\* neither found a token the acquisition raises BrowserAuthError.
C9_SessionsClosedExactlyOnce ==
    /\ \A i \in SessionIds :
          /\ sessions[i].closes <= 1
          /\ sessions[i].open <=> sessions[i].closes = 0
          /\ sessions[i].open => i = Len(sessions) /\ pc \in {"navigate", "poll", "close"}
    /\ pc \in {"launch", "acquired", "idle"} =>
          \A i \in SessionIds :
             /\ sessions[i].closes = 1
             /\ sessions[i].outcome \in {"token", "deadline", "error"}
    /\ (pc \in {"acquired", "idle"} /\ Len(sessions) = 2
          /\ \A i \in SessionIds : sessions[i].outcome # "token") =>
          /\ acq.kind = "raise"
          /\ acq.err = "BrowserAuthError"
\* Both phases polled to their deadlines; the acquisition has ended.
C9_Witness ==
    /\ pc = "acquired"
    /\ Len(sessions) = 2
    /\ \A i \in SessionIds : sessions[i].outcome = "deadline" /\ sessions[i].closes = 1

\* C10: an acquisition that ends hands its caller a truthy token that starts
\* with "eyJ", or raises; when both phases ran without finding a token it
\* raises BrowserAuthError carrying BROWSER_HEADED_TIMEOUT, which
\* login_with_browser passes on.
C10_ExhaustedRaisesWithHeadedTimeout ==
    /\ pc \in {"acquired", "idle"} /\ acqInvoked =>
          /\ acq.kind \in {"token", "raise"}
          /\ acq.kind = "token" => Truthy(acq.token) /\ acq.token.prefix
          /\ (Len(sessions) = 2 /\ \A i \in SessionIds : sessions[i].outcome # "token") =>
                /\ acq.kind = "raise"
                /\ acq.err = "BrowserAuthError"
                /\ acq.timeout = BROWSER_HEADED_TIMEOUT
    /\ (Done("login_with_browser") /\ acq.kind = "raise") =>
          /\ result.kind = "raise"
          /\ result.err = acq.err
          /\ result.timeout = acq.timeout
\* login_with_browser failed after the headed phase ran to its deadline.
C10_Witness ==
    /\ Done("login_with_browser")
    /\ Len(sessions) = 2
    /\ sessions[2].outcome = "deadline"
    /\ result.err = "BrowserAuthError"
    /\ result.timeout = BROWSER_HEADED_TIMEOUT

\* The most reads of LOGIN_DATA a phase with this timeout makes: the one
\* before the loop and one per poll interval that starts before the deadline.
MaxPolls(timeout) == 1 + (timeout + BROWSER_POLL_INTERVAL - 1) \div BROWSER_POLL_INTERVAL
LastSession == sessions[Len(sessions)]
C11_PollsBounded ==
    /\ Len(sessions) <= 2
    /\ (pc \in {"poll", "close"} /\ polls >= 2) => lastPoll < deadline
    /\ (pc = "poll" /\ polls = 1) => deadline - now = PhaseTimeout(headless)
    /\ pc \in {"poll", "close"} => polls <= MaxPolls(PhaseTimeout(headless))
    /\ (pc = "close" /\ LastSession.outcome = "deadline") =>
          /\ now >= deadline
          /\ ~Truthy(tok)
    /\ (pc = "acquired" /\ \A i \in SessionIds : sessions[i].outcome # "token") =>
          acq.kind = "raise"
\* C11: a phase reads LOGIN_DATA in its loop only before its own deadline
\* (set when its loop starts, the phase's own timeout ahead), so it makes a
\* bounded number of reads; there are at most two phases, the acquisition ends
\* in an exception when no read gave a token, and every acquisition that
\* starts ends.
C11_EveryAcquisitionTerminates ==
    /\ []C11_PollsBounded
    /\ (pc = "acquire") ~> (pc = "acquired")
\* Both phases read LOGIN_DATA as often as their deadlines allow and the
\* acquisition ended with the timeout error.
C11_Witness ==
    /\ pc = "acquired"
    /\ Len(sessions) = 2
    /\ sessions[1].outcome = "deadline"
    /\ sessions[2].outcome = "deadline"
    /\ polls = MaxPolls(BROWSER_HEADED_TIMEOUT)
    /\ acq = TimedOut

\* C12 (as claimed): when the third read of LOGIN_DATA in a phase is the
\* first to give a token, the phase ends with that token after exactly three
\* reads, and any two consecutive reads were at least BROWSER_POLL_INTERVAL
\* apart.
C12_ThirdPollTimed ==
    (pc = "close" /\ polls = 3 /\ LastSession.outcome = "token") =>
        /\ Truthy(tok) /\ tok.prefix
        /\ minGap >= BROWSER_POLL_INTERVAL

\* C13: without the playwright package the acquisition raises
\* BrowserAuthError with its own message (not the timeout's) and a
\* suggestion, no session was launched, and login_with_browser passes the
\* error on.
C13_MissingDependencyReported ==
    /\ (~playwright /\ acqInvoked /\ pc \in {"acquired", "idle"}) =>
          /\ acq.kind = "raise"
          /\ acq.err = "BrowserAuthError"
          /\ acq.msg # TimedOut.msg
          /\ acq.timeout = 0
          /\ acq.suggestion # ""
          /\ acq.phase = 0
    /\ ~playwright => sessions = <<>>
    /\ (Done("login_with_browser") /\ ~playwright) =>
          /\ result.kind = "raise"
          /\ result.err = "BrowserAuthError"
          /\ result.msg = acq.msg
          /\ store = pre
\* auth login failed for want of playwright, a valid record being cached.
C13_Witness ==
    /\ Done("login_with_browser")
    /\ ~playwright
    /\ result.err = "BrowserAuthError"
    /\ result.msg = "Playwright is not installed."
    /\ ValidRecord(store, now)

\* What C14, C15 and C16 call a cached record: the token file holds an
\* object; otherwise no record can be loaded.
HasRecord(s) == s.kind = "dict"
\* C14 (as claimed): with SCOUTS_NO_BROWSER set get_token never calls the
\* acquisition and launches no session; it returns the cached token of a
\* valid record, and with no valid record it raises AuthenticationError.
C14_DisabledFailsFast ==
    (Done("get_token") /\ noBrowser) =>
        /\ ~acqInvoked
        /\ sessions = <<>>
        /\ store = pre
        /\ IF ValidRecord(pre, preNow) /\ pre.hasToken
           THEN result = At(Return("get_token", pre.token), preNow)
           ELSE result.kind = "raise" /\ result.err = "AuthenticationError"

\* C15 (as claimed): a get_token that fails raises AuthenticationError; its
\* message is "Token expired at ..." exactly when a cached record exists (and,
\* get_token having failed, is expired) and "No authentication token found."
\* exactly when no record could be loaded.
C15_FailureDistinguishes ==
    (Done("get_token") /\ result.kind = "raise") =>
        /\ result.err = "AuthenticationError"
        /\ result.msg = "Token expired at" <=> HasRecord(pre)
        /\ result.msg = "No authentication token found." <=> ~HasRecord(pre)

\* C16 (as claimed): get_token_info calls no acquisition and leaves the token
\* file as it was; it returns {} when no record can be loaded and otherwise
\* the record with is_expired telling whether its expiry has been reached.
C16_InfoReadOnly ==
    Done("get_token_info") =>
        /\ ~acqInvoked
        /\ sessions = <<>>
        /\ store = pre
        /\ result.kind = "return"
        /\ ~HasRecord(pre) => result.rec = File("falsy")
        /\ HasRecord(pre) =>
              /\ result.rec = pre
              /\ result.expired <=> ~ValidRecord(pre, preNow)

\* C17: login_with_browser calls the acquisition whatever is cached and ends
\* only after the acquisition has ended; it returns exactly when the
\* acquisition gave a token that login_with_token accepts, and then the token
\* file holds the record of that token and the returned metadata is that
\* record with its is_expired.
C17_LoginAlwaysAcquires ==
    Done("login_with_browser") =>
        /\ acqInvoked
        /\ acq.kind \in {"token", "raise"}
        /\ result.kind = "return" <=>
              (acq.kind = "token" /\ login_with_token(acq.token, pre, result.at).ok)
        /\ result.kind = "return" =>
              /\ store = Rec(acq.token, EaAware(acq.token.exp.t))
              /\ result.rec = store
              /\ result.token = acq.token
              /\ result.expired <=> ~ValidRecord(store, result.at)
\* auth login, with a record cached that is still valid, stored another token.
C17_Witness ==
    /\ Done("login_with_browser")
    /\ ValidRecord(pre, preNow)
    /\ pre.hasToken
    /\ result.kind = "return"
    /\ store.token # pre.token
    /\ ValidRecord(store, result.at)

\* C18: after logout there is no token file and get_token_info returns {};
\* logout raises nothing, and with no token file (after a logout, or none was
\* ever written) it changes nothing.
C18_LogoutIdempotent ==
    Done("logout") =>
        /\ result.kind = "return"
        /\ store = NoFile
        /\ get_token_info(store, result.at) =
              [Return("get_token_info", NoneTok) EXCEPT !.rec = File("falsy")]
        /\ pre = NoFile => store = pre
        /\ ~acqInvoked /\ sessions = <<>>
\* logout ran with no token file.
C18_Witness ==
    /\ Done("logout")
    /\ pre = NoFile
    /\ result.kind = "return"
    /\ store = NoFile

\* A token file that holds no well-formed record: missing, not readable as
\* JSON, or JSON that is not an object with a "token" entry.
Corrupt(s) == s.kind # "dict" \/ ~s.hasToken
\* C19 (as claimed): such a file is treated exactly like a missing one:
\* get_token_info returns {}, and get_token goes on to the acquisition
\* (unless disabled) and, when it fails, raises "No authentication token
\* found."; no other exception reaches the caller.
C19_CorruptStoreIsAbsent ==
    /\ (Done("get_token_info") /\ Corrupt(pre)) =>
          result = At(get_token_info(NoFile, preNow), preNow)
    /\ (Done("get_token") /\ Corrupt(pre)) =>
          /\ acqInvoked <=> ~noBrowser
          /\ result.kind = "raise" =>
                /\ result.err = "AuthenticationError"
                /\ result.msg = "No authentication token found."

\* C20 (as claimed): when the process is terminated while login_with_token
\* saves a record, the token file is left with exactly what it held before
\* the call or with the complete new record.
C20_SaveAtomic ==
    pc = "dead" =>
        \/ store = pre
        \/ store = login_with_token(arg, pre, preNow).store

\* C21 (as claimed): when two invocations have written the same file with
\* their steps interleaved, the file holds exactly the complete record of one
\* of the two, never a mixture.
C21_LastWriterWins ==
    (\A p \in Procs : wr[p].pc = "closed") =>
        \E p \in Procs : disk = Content(p, wr[p].len)

HoldsToken(s) == s.kind = "dict" /\ s.hasToken
\* C22 (as claimed): whenever the credential file holds a token, its mode is
\* restricted to the owning user, also during and after the save that first
\* creates the file.
C22_OwnerOnlyWheneverTokenHeld == HoldsToken(store) => mode = "owner"

\* What the running refresh worked on: uid and pgu come from the credential
\* record, and there are none without a record.
Effective ==
    IF get_token_info(store, cresult.at).rec.kind = "dict" THEN upstream
    ELSE [upstream EXCEPT !.uid = "", !.pgu = ""]
\* A refresh has returned; and its my-scouts step ran to its end: the
\* credential record gave a uid, the fetch answered, every element of the
\* answer is an object.
Refreshed == cresult.op = "refresh" /\ cresult.kind = "return"
ScoutsMerged ==
    /\ Refreshed
    /\ "my_scouts" \in Range(fetched)
    /\ ~upstream.fail.my_scouts
    /\ \A j \in 1..Len(upstream.scouts) : upstream.scouts[j].ok
NoDuplicates(list) ==
    \A a, b \in 1..Len(list) : a # b => list[a] # list[b]
\* C23: after a refresh the snapshot's scouts hold exactly one entry for each
\* distinct person identifier among the my-scouts records, and the entry's
\* positions hold every distinct position reported for that person, none
\* twice.
C23_OneEntryPerPerson ==
    ScoutsMerged =>
        LET raw == upstream.scouts
            scouts == ctxFile.scouts
        IN  /\ {scouts[i].personGuid : i \in 1..Len(scouts)}
                = {raw[j].personGuid : j \in 1..Len(raw)}
            /\ \A a, b \in 1..Len(scouts) :
                    a # b => scouts[a].personGuid # scouts[b].personGuid
            /\ \A i \in 1..Len(scouts) :
                /\ NoDuplicates(scouts[i].positions)
                /\ Range(scouts[i].positions) \ {""}
                    = {raw[j].position :
                         j \in {k \in 1..Len(raw) :
                                  raw[k].personGuid = scouts[i].personGuid}} \ {""}
C23_Witness ==
    /\ ScoutsMerged
    /\ Len(upstream.scouts) = 2
    /\ Len(ctxFile.scouts) = 1
    /\ Len(ctxFile.scouts[1].positions) = 2

\* C24: after a refresh every scout entry with an orgGuid names an
\* organization that the snapshot's organizations hold, made up from the
\* my-scouts record when the profile did not give it.
C24_ScoutOrgsListed ==
    Refreshed =>
        \A i \in 1..Len(ctxFile.scouts) :
            ctxFile.scouts[i].orgGuid # ""
                => HasOrg(ctxFile.organizations, ctxFile.scouts[i].orgGuid)
C24_Witness ==
    /\ Refreshed
    /\ \E i \in 1..Len(ctxFile.scouts) :
          /\ ctxFile.scouts[i].orgGuid # ""
          /\ ~HasOrg(orgs_step(Effective), ctxFile.scouts[i].orgGuid)
          /\ HasOrg(ctxFile.organizations, ctxFile.scouts[i].orgGuid)

\* C25 (as claimed): for every my-scouts record that names an organization
\* the profile did not give, the snapshot holds an organization entry for it
\* whose name is not empty and is made of a unit type and unit number.
C25_StubNamedFromUnit ==
    ScoutsMerged =>
        \A j \in 1..Len(upstream.scouts) :
            LET guid == upstream.scouts[j].orgGuid IN
            (guid # "" /\ ~HasOrg(orgs_step(Effective), guid)) =>
                /\ HasOrg(ctxFile.organizations, guid)
                /\ OrgOf(ctxFile.organizations, guid).name # <<>>
                /\ \E k \in 1..Len(upstream.scouts) :
                      /\ upstream.scouts[k].orgGuid = guid
                      /\ upstream.scouts[k].unitType # ""
                      /\ OrgOf(ctxFile.organizations, guid).name
                            = Words(upstream.scouts[k].unitType,
                                    upstream.scouts[k].unitNumber)

\* The upstream with every failed fetch replaced by an answer without
\* records (the first profile fetch aside, which gives fields, not records).
Emptied(u) ==
    [u EXCEPT !.fail = [NoFetchFails EXCEPT !.profile1 = u.fail.profile1],
              !.profile.organizationPositions = IF u.fail.profile2 THEN <<>> ELSE @,
              !.scouts = IF u.fail.my_scouts THEN <<>> ELSE @,
              !.roles = IF u.fail.role_types THEN <<>> ELSE @]
\* C26: whichever of the profile, my-scouts and role fetches fail, refresh
\* raises nothing and saves a snapshot with version and lastRefreshed; a
\* failed fetch contributes nothing (the user keeps only the identifiers of
\* the credential record; organizations and scouts are what they would be
\* had the endpoint answered with no records) and the other steps contribute
\* what they do without the failure.
C26_FailuresContained ==
    (cresult.op = "refresh" /\ get_token_info(store, cresult.at).kind = "return") =>
        LET u == Effective IN
        /\ cresult.kind = "return"
        /\ ctxFile = cresult.data
        /\ ctxFile.kind = "dict"
        /\ ctxFile.version = CONTEXT_VERSION
        /\ ctxFile.lastRefreshed = EaAware(cresult.at)
        /\ ctxFile.user.present
        /\ ctxFile.user.userId = u.uid /\ ctxFile.user.personGuid = u.pgu
        /\ ctxFile.user.hasProfile = (u.uid # "" /\ ~u.fail.profile1)
        /\ ctxFile.user.hasProfile => ctxFile.user.profile = u.profile.profile
        /\ ctxFile.organizations = refresh_data(Emptied(u)).organizations
        /\ ctxFile.scouts = refresh_data(Emptied(u)).scouts
C26_Witness ==
    /\ Refreshed
    /\ Effective.uid # "" /\ Effective.pgu # ""
    /\ upstream.fail.profile2 /\ ~upstream.fail.my_scouts
    /\ ctxFile.version = CONTEXT_VERSION
    /\ ctxFile.scouts # <<>>
    /\ fetched = <<"profile", "profile", "my_scouts", "role_types">>

\* The roles step of the refresh ran to its end, and the organizations
\* before it.
RolesRan ==
    /\ Refreshed
    /\ "role_types" \in Range(fetched)
    /\ ~upstream.fail.role_types
OrgsBeforeRoles == scouts_step(Effective, orgs_step(Effective)).orgs
\* C27 (as claimed): the roles step sets an organization's program exactly
\* when the organization is known and has no program value yet, from the
\* first role entry of that organization that has a program; it changes no
\* program value that exists, adds no organization, and ignores the role
\* entries of other organizations.
C27_BackfillOnlyMissing ==
    RolesRan =>
        LET before == OrgsBeforeRoles
            after == ctxFile.organizations
            roles == upstream.roles
        IN  /\ Len(after) = Len(before)
            /\ \A i \in 1..Len(before) :
                LET named == {k \in 1..Len(roles) :
                                /\ roles[k].organizationGuid = before[i].orgGuid
                                /\ roles[k].programType # ""}
                    first == CHOOSE k \in named : \A l \in named : k <= l
                IN  /\ after[i].orgGuid = before[i].orgGuid
                    /\ after[i].program =
                         IF before[i].program = "" /\ named # {}
                         THEN roles[first].programType
                         ELSE before[i].program

\* The calls that only read the snapshot.
ReadOps ==
    {"exists", "is_stale", "get", "get_scouts", "get_organizations", "get_user",
     "resolve_scout", "show"}
\* CONTEXT_FILE holds no snapshot (no file, or text that gives no object), or
\* it holds one.
NoSnapshot(f) == f.kind \in {"nofile", "unparseable", "null", "emptydict", "falsy"}
Snapshot(f) == f.kind = "dict"
\* C28: is_stale returns true when there is no snapshot, when lastRefreshed
\* is missing or cannot be read as a UTC instant, and when the snapshot is
\* older than CONTEXT_MAX_AGE (seven days); it returns false for a snapshot
\* of any age up to that, one minute for instance.
C28_StaleRule ==
    (cresult.op = "is_stale" /\ (NoSnapshot(ctxFile) \/ Snapshot(ctxFile))) =>
        /\ cresult.kind = "return"
        /\ cresult.flag =
            \/ NoSnapshot(ctxFile)
            \/ ctxFile.lastRefreshed.k # "aware"
            \/ cresult.at - ctxFile.lastRefreshed.t > 7 * 24 * 60 * 60
C28_Witness ==
    /\ cresult.op = "is_stale"
    /\ Snapshot(ctxFile)
    /\ ctxFile.lastRefreshed.k = "aware"
    /\ cresult.at - ctxFile.lastRefreshed.t = 60
    /\ ~cresult.flag

\* C29: the reads (exists, is_stale, get, get_scouts, get_organizations,
\* get_user, resolve_scout, show) fetch nothing upstream, start no
\* acquisition and write neither the snapshot nor the credential file; with
\* no snapshot file they return empty results.
C29_ReadsAreLocal ==
    /\ [](cresult.op \in ReadOps /\ ctxFile.kind = "nofile" =>
            /\ cresult.kind = "return"
            /\ cresult.list = <<>>
            /\ cresult.op = "exists" => ~cresult.flag
            /\ cresult.op = "is_stale" => cresult.flag
            /\ cresult.op = "get" => cresult.data.kind = "null"
            /\ cresult.op = "get_user" => ~cresult.data.user.present
            /\ cresult.op = "show" => cresult.status = "not_populated")
    /\ [][cresult'.op \in ReadOps =>
            /\ ctxFile' = ctxFile
            /\ fetched' = fetched
            /\ store' = store
            /\ sessions' = sessions
            /\ acqInvoked' = acqInvoked]_vars
C29_Witness ==
    /\ cresult.op = "get_scouts"
    /\ cresult.kind = "return"
    /\ ctxFile.kind = "nofile"
    /\ fetched = <<>>

\* The fields of a snapshot's scout entry that resolve_scout looks at, and
\* whether query, compared without regard to case, is part of one of them.
NameFields(scout) == {scout.fullName, scout.firstName, scout.lastName}
Names(scout, query) ==
    \E name \in NameFields(scout) :
        \E at \in 0..(Len(name) - Len(query)) :
            \A j \in 1..Len(query) : lower_char(name[at + j]) = lower_char(query[j])
\* C30: resolve_scout returns exactly the snapshot's scout entries in whose
\* fullName, firstName or lastName (a missing one is empty) the query occurs,
\* compared without regard to case, in the snapshot's order and each once.
C30_ResolveExact ==
    (cresult.op = "resolve_scout" /\ (NoSnapshot(ctxFile) \/ Snapshot(ctxFile))) =>
        LET scouts == ctxFile.scouts
            hits == {i \in 1..Len(scouts) : Names(scouts[i], cresult.query)}
            nth(k) == CHOOSE i \in hits : Cardinality({j \in hits : j <= i}) = k
        IN  /\ cresult.kind = "return"
            /\ Len(cresult.list) = Cardinality(hits)
            /\ \A k \in 1..Len(cresult.list) : cresult.list[k] = scouts[nth(k)]
C30_Witness ==
    /\ cresult.op = "resolve_scout"
    /\ cresult.query = <<"A", "N">>
    /\ Len(ctxFile.scouts) = 2
    /\ Len(cresult.list) = 1
    /\ cresult.list[1] = ctxFile.scouts[2]

\* A value of LOGIN_DATA that holds a token: JSON that decodes to an object
\* whose token is a non-empty string starting with "eyJ".
Qualifies(raw) == raw.k = "token" /\ raw.token # EmptyTok /\ raw.token.prefix
\* C31: the value read from LOGIN_DATA gives a token exactly when it
\* qualifies, and then that token ends the polling; after any other value,
\* or an error of the read, there is no token and the polling goes on until
\* its deadline.
C31_TokenExactlyWhenQualified ==
    lastRaw # NoRaw =>
        IF Qualifies(lastRaw)
        THEN /\ pc = "close"
             /\ tok = lastRaw.token
             /\ sessions[Len(sessions)].outcome = "token"
        ELSE /\ tok = NoneTok
             /\ pc = "poll" \/ sessions[Len(sessions)].outcome = "deadline"
C31_Witness ==
    /\ lastRaw.k = "token"
    /\ ~lastRaw.token.prefix
    /\ pc = "poll"
    /\ polls = 3

\* C32: a message is sent only after the confirmation returned confirmed,
\* which happens only when the operator's response (the text given, without
\* the blanks around it) equals the code generated in this run; any other
\* response, a cancel, the end of input or a failed or unavailable dialog
\* ends in no send; and a dry run neither asks for confirmation nor sends.
TypedTheCode == send.answer.kind = "text" /\ send.answer.body = send.code
WithProfileOrgs(u, failed) == [u EXCEPT !.fail.profile2 = failed]
ProfileFetches == {i \in DOMAIN fetched : fetched[i] = "profile"}
\* C33 (as claimed): a refresh pass fetches the caller's profile exactly
\* once, and the user fields and the profile-derived organizations come from
\* that one response: in a persisted snapshot they are both contributed or
\* both absent.
C33_ProfileFetchedOnce ==
    (Refreshed /\ Effective.uid # "") =>
        /\ Cardinality(ProfileFetches) = 1
        /\ ctxFile.organizations =
             refresh_data(WithProfileOrgs(Effective, ~ctxFile.user.hasProfile)).organizations

\* The organization entries with this orgGuid, and the entries of an
\* organization's scouts summary with this userId.
OrgsWith(guid) ==
    {i \in 1..Len(ctxFile.organizations) : ctxFile.organizations[i].orgGuid = guid}
SummaryIds(org) == [j \in 1..Len(org.scouts) |-> org.scouts[j].userId]
\* C34: in every snapshot persisted by refresh no two organizations share an
\* orgGuid, no organization's roles hold a value twice (so the guardian
\* role at most once), every organization that a dependent record of the
\* snapshot refers to (and, when the my-scouts step ran through, that any
\* record of the answer refers to) exists and has the guardian role, and no
\* scouts summary lists a userId twice.
C34_SnapshotHasNoDuplicates ==
    Refreshed =>
        /\ \A a, b \in 1..Len(ctxFile.organizations) :
              a # b => ctxFile.organizations[a].orgGuid # ctxFile.organizations[b].orgGuid
        /\ \A i \in 1..Len(ctxFile.organizations) :
              /\ NoDuplicates(ctxFile.organizations[i].roles)
              /\ NoDuplicates(SummaryIds(ctxFile.organizations[i]))
        /\ \A j \in 1..Len(ctxFile.scouts) :
              ctxFile.scouts[j].orgGuid # "" =>
                 \E i \in OrgsWith(ctxFile.scouts[j].orgGuid) :
                    "Parent/Guardian" \in Range(ctxFile.organizations[i].roles)
        /\ ScoutsMerged =>
              \A j \in 1..Len(upstream.scouts) :
                 upstream.scouts[j].orgGuid # "" =>
                    \E i \in OrgsWith(upstream.scouts[j].orgGuid) :
                       "Parent/Guardian" \in Range(ctxFile.organizations[i].roles)
\* Two persons with one userId in one organization, which the profile gives
\* too: one entry in its summary, and the guardian role after the profile's.
C34_Witness ==
    /\ Refreshed
    /\ Len(upstream.scouts) = 2
    /\ upstream.scouts[1].personGuid # upstream.scouts[2].personGuid
    /\ upstream.scouts[1].userId = upstream.scouts[2].userId
    /\ upstream.scouts[1].orgGuid = "g1" /\ upstream.scouts[2].orgGuid = "g1"
    /\ Len(ctxFile.scouts) = 2
    /\ \E i \in OrgsWith("g1") :
          /\ Len(ctxFile.organizations[i].scouts) = 1
          /\ Len(ctxFile.organizations[i].roles) = 3

\* C35: TOKEN_FILE changes only in a call that ingests a token with success
\* (to that token's record) or in a logout (to no file); a get_token or
\* login_with_browser that fails, because the acquisition raised or timed
\* out or because login_with_token rejected its token, leaves TOKEN_FILE
\* exactly as it was when the call started.
Ingesting == {"get_token", "login_with_token", "login_with_browser"}
C35_FailedLoginKeepsStore ==
    /\ []((pc = "idle" /\ result.op \in {"get_token", "login_with_browser"}
             /\ result.kind = "raise") => store = pre)
    /\ [][store' # store =>
            \/ result'.op = "logout" /\ store' = NoFile
            \/ /\ result'.op \in Ingesting
               /\ pc' = "idle"
               /\ result'.kind = "return"
               /\ \E t \in Tokens :
                     /\ login_with_token(t, store, now).ok
                     /\ store' = login_with_token(t, store, now).store]_vars
\* login_with_browser over a cached record: the acquisition gave a token
\* that login_with_token rejects.
C35_Witness ==
    /\ Done("login_with_browser")
    /\ result.kind = "raise"
    /\ acq.kind = "token"
    /\ pre.kind = "dict"
    /\ store = pre

\* The organization and person identifiers that the answers of this pass
\* mention.
MentionedOrgs ==
    {upstream.profile.organizationPositions[i].organizationGuid :
        i \in 1..Len(upstream.profile.organizationPositions)}
    \cup {upstream.scouts[j].orgGuid : j \in 1..Len(upstream.scouts)}
MentionedPersons == {upstream.scouts[j].personGuid : j \in 1..Len(upstream.scouts)}
AllFetchesFail ==
    /\ upstream.fail.profile1 /\ upstream.fail.profile2
    /\ upstream.fail.my_scouts /\ upstream.fail.role_types
\* C36: what a refresh persists is a function of the credential claims and
\* of the answers of this pass only, whatever CONTEXT_FILE held before: the
\* same for every previous snapshot, with no organization or scout that
\* this pass's answers do not mention, and with no organization, no scout
\* and no profile field at all when every fetch of the pass failed.
C36_RebuiltFromScratch ==
    Refreshed =>
        /\ ctxFile = save(refresh_data(Effective), cresult.at)
        /\ \A i \in 1..Len(ctxFile.organizations) :
              ctxFile.organizations[i].orgGuid \in MentionedOrgs
        /\ \A j \in 1..Len(ctxFile.scouts) :
              ctxFile.scouts[j].personGuid \in MentionedPersons
        /\ ctxFile.user.userId = Effective.uid
        /\ AllFetchesFail =>
              /\ ctxFile.organizations = <<>>
              /\ ctxFile.scouts = <<>>
              /\ ~ctxFile.user.hasProfile
\* A pass over the snapshot of another user, with every fetch failing.
C36_Witness ==
    /\ Refreshed
    /\ AllFetchesFail
    /\ Effective.uid = "u1"
    /\ fetched = <<"profile", "profile", "my_scouts", "role_types">>
    /\ ctxFile.lastRefreshed = EaAware(CtxEpoch)
    /\ ctxFile.organizations = <<>>

\* The my-scouts step was cut short: the fetch answered, and an element of
\* the answer is no object.
ScoutsCutShort ==
    /\ Refreshed
    /\ "my_scouts" \in Range(fetched)
    /\ ~upstream.fail.my_scouts
    /\ \E j \in 1..Len(upstream.scouts) : ~upstream.scouts[j].ok
\* C37 (as claimed): when the my-scouts step fails after it has processed
\* some records, the snapshot holds nothing of that step: no scout, no stub
\* organization and no added guardian role, so its organizations are what
\* the profile step produced (with the programs of the roles step).
C37_ScoutsStepAtomic ==
    ScoutsCutShort =>
        /\ ctxFile.scouts = <<>>
        /\ ctxFile.organizations = roles_step(Effective, orgs_step(Effective))

\* C38 (as claimed): after a refresh whose my-scouts step ran through, for
\* every record of the answer with an orgGuid and a userId the organization
\* of that orgGuid lists that userId in its scouts summary, also when the
\* records report one person under several organizations.
C38_EveryRecordListed ==
    ScoutsMerged =>
        \A j \in 1..Len(upstream.scouts) :
            LET r == upstream.scouts[j] IN
            (r.orgGuid # "" /\ r.userId # "") =>
                \E i \in OrgsWith(r.orgGuid) :
                    r.userId \in Range(SummaryIds(ctxFile.organizations[i]))

\* A snapshot that exists with the current version and is not older than
\* the staleness threshold at instant n.
Fresh(f, n) ==
    /\ f.kind = "dict"
    /\ f.version = CONTEXT_VERSION
    /\ f.lastRefreshed.k = "aware"
    /\ n - f.lastRefreshed.t <= CONTEXT_MAX_AGE
\* C39 (as claimed): a command that needs a client is dispatched only over
\* a snapshot that exists with the current version and is not stale; before
\* the dispatch main runs a refresh pass when the snapshot is missing,
\* unreadable, of another version or older than the threshold, and none
\* when it exists and is fresh.
C39_CommandsSeeFreshSnapshot ==
    /\ []((cresult.op = "main" /\ cresult.kind = "return") => Fresh(ctxFile, cresult.at))
    /\ [][cresult'.op = "main" /\ cresult' # cresult =>
            (cresult'.status = "refresh") = ~Fresh(ctxFile, now)]_vars
====
